---- MODULE Spec2Model ----
(***************************************************************************)
(* A model of mbordner/memfs: the node tree and path resolution            *)
(* (memfs.go), the open-file handle and its flag semantics, and the        *)
(* cursor-based content engine (file.go).                                  *)
(*                                                                         *)
(* Nodes live in an arena (the sequence `nodes`, index 1 is the root); a   *)
(* directory maps names to arena indices.  Handles live in the sequence    *)
(* `files`.  `last` records the most recent call: its inputs and what it   *)
(* returned, so that results can be stated as properties.  `threads` holds *)
(* the calls that run step by step, lock by lock, when calls interleave.   *)
(***************************************************************************)
EXTENDS Integers, Sequences, FiniteSets, TLC

VARIABLES nodes, files, last, threads

vars == <<nodes, files, last, threads>>

----------------------------------------------------------------------------
(* Bounds of the model *)

MaxNodes == 5
MaxFiles == 2
MaxLen == 3
MaxThreads == 2

----------------------------------------------------------------------------
(* Values *)

tempDir == "tmp"
Cwd == <<"w">>
NameOrder == <<"", "a", "tmp", "w">>
DataBytes == {1, 2}

Nil == "nil"
Root == 1

Min(a, b) == IF a < b THEN a ELSE b

SeqsUpTo(S, n) == UNION {[1..m -> S] : m \in 0..n}

Bufs == SeqsUpTo(DataBytes, 2)
BufLens == 0..2
Offsets == (0 - 1)..MaxLen
SeekOffsets == (0 - 2)..MaxLen

SeekStart == 0
SeekCurrent == 1
SeekEnd == 2
Whences == {SeekStart, SeekCurrent, SeekEnd, 3}

EmptyMap == [x \in {} |-> 0]

----------------------------------------------------------------------------
(* Open flags: a flag value is the set of its bits; O_RDONLY is no bit.    *)

O_RDONLY == {}
O_WRONLY == {"O_WRONLY"}
O_RDWR == {"O_RDWR"}
O_APPEND == {"O_APPEND"}
O_CREATE == {"O_CREATE"}
O_EXCL == {"O_EXCL"}
O_TRUNC == {"O_TRUNC"}

isSet(f, mask) == (f \cap mask) = mask
\* A faulty isReadOnly: any value without a write bit counts as read-only.
isReadOnlyNoWriteBit(f) == f \cap (O_WRONLY \cup O_RDWR) = {}

isReadOnly(f) == f = O_RDONLY
isWriteOnly(f) == isSet(f, O_WRONLY)
isReadWrite(f) == isSet(f, O_RDWR)
canRead(f) == isReadOnly(f) \/ isReadWrite(f)
canWrite(f) == isWriteOnly(f) \/ isReadWrite(f)
isAppend(f) == isSet(f, O_APPEND)
isCreate(f) == isSet(f, O_CREATE)
isCreateMustNotExist(f) == isSet(f, O_EXCL)
isTruncating(f) == isSet(f, O_TRUNC)

OpenFlags ==
  { O_RDONLY, O_WRONLY, O_RDWR,
    O_RDWR \cup O_CREATE,
    O_RDWR \cup O_CREATE \cup O_TRUNC,
    O_RDWR \cup O_CREATE \cup O_EXCL,
    O_RDWR \cup O_CREATE \cup O_EXCL \cup O_TRUNC,
    O_RDWR \cup O_APPEND,
    O_WRONLY \cup O_TRUNC,
    O_CREATE,
    O_TRUNC }

----------------------------------------------------------------------------
(* Errors: the message the code formats, and the kind it wraps.            *)

ErrKind(e) ==
  CASE e = Nil -> Nil
    [] e \in {"invalid path", "not a directory", "directory not empty",
              "path does not exist and cannot create", "file unlinked",
              "cannot read", "cannot write", "append only file",
              "not a directoru", "invalid argument"} -> "ErrInvalid"
    [] e \in {"path does not exist", "dir does not exist"} -> "ErrNotExist"
    [] e = "path exists" -> "ErrExist"
    [] e = "file closed" -> "ErrClosed"
    [] e = "EOF" -> "EOF"
    [] OTHER -> "panic"

----------------------------------------------------------------------------
(* Nodes *)

fsNode(name, dir) ==
  [name |-> name, dir |-> dir, content |-> <<>>, entries |-> EmptyMap,
   unlinked |-> FALSE]

isDir(node) == node.dir

getEntryNames(node) ==
  IF isDir(node)
  THEN SelectSeq(NameOrder, LAMBDA s : s \in DOMAIN node.entries)
  ELSE <<>>

Size(node) ==
  IF ~node.unlinked /\ ~isDir(node) THEN Len(node.content) ELSE 0

putEntry(ns, parent, name, id) ==
  [ns EXCEPT ![parent].entries = (name :> id) @@ ns[parent].entries]

deleteEntry(ns, parent, name) ==
  [ns EXCEPT ![parent].entries =
     [x \in (DOMAIN ns[parent].entries) \ {name} |-> ns[parent].entries[x]]]

----------------------------------------------------------------------------
(* Path resolution.  A path is the sequence of segments of its absolute,   *)
(* cleaned form; the empty sequence is the root path "/".  A node          *)
(* reference of 0 is nil.  missingPath is kept split at the separator.     *)

\* The segments of the absolute, cleaned form of a path text split at the
\* separator: a text not starting at the root is taken from the working
\* directory, and empty segments fall away.
getAbsolutePath(parts) ==
  LET segs == SelectSeq(parts, LAMBDA x : x /= "") IN
  IF Len(parts) > 1 /\ parts[1] = "" THEN segs ELSE Cwd \o segs

RECURSIVE walk(_, _, _, _, _)
walk(ns, current, parts, i, lastEntry) ==
  IF i > Len(parts)
  THEN IF lastEntry \in DOMAIN ns[current].entries
       THEN [parent |-> current, entry |-> ns[current].entries[lastEntry],
             missingPath |-> <<>>, err |-> Nil]
       ELSE [parent |-> current, entry |-> 0,
             missingPath |-> <<lastEntry>>, err |-> Nil]
  ELSE IF parts[i] \in DOMAIN ns[current].entries
       THEN LET e == ns[current].entries[parts[i]] IN
            IF ~isDir(ns[e])
            THEN [parent |-> 0, entry |-> 0, missingPath |-> <<>>,
                  err |-> "not a directory"]
            ELSE walk(ns, e, parts, i + 1, lastEntry)
       ELSE [parent |-> current, entry |-> 0,
             missingPath |-> SubSeq(parts, i, Len(parts)), err |-> Nil]

getEntry(ns, path) ==
  IF path = <<>>
  THEN [parent |-> Root, entry |-> 0, missingPath |-> <<>>, err |-> Nil]
  ELSE walk(ns, Root, SubSeq(path, 1, Len(path) - 1), 1, path[Len(path)])

\* The name a missingPath of at most one segment joins to.
missingName(missingPath) ==
  IF missingPath = <<>> THEN "" ELSE missingPath[1]

----------------------------------------------------------------------------
(* Store operations.  Each returns the error and the arena after the call. *)

RECURSIVE mkdirAllWalk(_, _, _, _)
mkdirAllWalk(ns, current, parts, i) ==
  IF i > Len(parts)
  THEN [err |-> Nil, nodes |-> ns]
  ELSE IF parts[i] \in DOMAIN ns[current].entries
       THEN LET entry == ns[current].entries[parts[i]] IN
            IF ~isDir(ns[entry])
            THEN [err |-> "not a directory", nodes |-> ns]
            ELSE mkdirAllWalk(ns, entry, parts, i + 1)
       ELSE LET id == Len(ns) + 1 IN
            mkdirAllWalk(putEntry(Append(ns, fsNode(parts[i], TRUE)),
                                  current, parts[i], id),
                         id, parts, i + 1)

\* parts is the path split at the separator, as the code splits the raw text.
MkdirAll(ns, parts) ==
  IF Len(parts) = 0 \/ parts[1] /= ""
  THEN [err |-> "invalid path", nodes |-> ns]
  ELSE IF Len(parts) = 1
       THEN [err |-> Nil, nodes |-> ns]
       ELSE mkdirAllWalk(ns, Root, Tail(parts), 1)

New ==
  LET root == [fsNode("", TRUE) EXCEPT !.entries = (tempDir :> 2)]
  IN MkdirAll(<<root, fsNode(tempDir, TRUE)>>, <<"">> \o Cwd).nodes

\* A handle: crws is FALSE for the nil content engine of a directory handle,
\* pos is the engine's cursor.  path is not a field of the code's File: it
\* remembers the path the handle was opened on, for the properties only.
File(node, flag, crws, pos, path) ==
  [node |-> node, flag |-> flag, crws |-> crws, pos |-> pos, closed |-> FALSE,
   indexReadDir |-> 0, indexReaddir |-> 0, indexReaddirnames |-> 0,
   path |-> path]

\* A faulty open of an existing file: Truncate empties it without write
\* intent as well.
openExistingTruncAny(node, flag) ==
  IF canWrite(flag) /\ isCreate(flag) /\ isCreateMustNotExist(flag)
  THEN [err |-> "path exists", content |-> node.content, pos |-> 0]
  ELSE IF isTruncating(flag)
       THEN [err |-> Nil, content |-> <<>>, pos |-> 0]
       ELSE IF canWrite(flag) /\ isAppend(flag)
            THEN [err |-> Nil, content |-> node.content,
                  pos |-> Len(node.content)]
            ELSE [err |-> Nil, content |-> node.content, pos |-> 0]

\* A faulty open of an existing file: Truncate empties it before the
\* exclusive-create check refuses the call.
openExistingTruncFirst(node, flag) ==
  LET content == IF canWrite(flag) /\ isTruncating(flag)
                 THEN <<>> ELSE node.content
  IN IF canWrite(flag) /\ isCreate(flag) /\ isCreateMustNotExist(flag)
     THEN [err |-> "path exists", content |-> content, pos |-> 0]
     ELSE IF canWrite(flag) /\ ~isTruncating(flag) /\ isAppend(flag)
          THEN [err |-> Nil, content |-> content, pos |-> Len(content)]
          ELSE [err |-> Nil, content |-> content, pos |-> 0]

\* OpenFile on an existing file node: the flag checks and their effects.
openExisting(node, flag) ==
  IF canWrite(flag)
  THEN IF isCreate(flag) /\ isCreateMustNotExist(flag)
       THEN [err |-> "path exists", content |-> node.content, pos |-> 0]
       ELSE IF isTruncating(flag)
            THEN [err |-> Nil, content |-> <<>>, pos |-> 0]
            ELSE IF isAppend(flag)
                 THEN [err |-> Nil, content |-> node.content,
                       pos |-> Len(node.content)]
                 ELSE [err |-> Nil, content |-> node.content, pos |-> 0]
  ELSE [err |-> Nil, content |-> node.content, pos |-> 0]

\* A faulty open of an absent target: any flags but read-only create it.
openAbsentAnyWriter(flag) ==
  IF isReadOnly(flag) THEN "path does not exist" ELSE "create"

\* OpenFile on an absent target: which error, or "create".
openAbsent(flag) ==
  IF isReadOnly(flag)
  THEN "path does not exist"
  ELSE IF isCreate(flag)
       THEN "create"
       ELSE "path does not exist and cannot create"

OpenFile(ns, fs, path, flag) ==
  LET g == getEntry(ns, path)
      fail(e) == [err |-> e, nodes |-> ns, files |-> fs]
  IN
  IF g.err /= Nil THEN fail(g.err)
  ELSE IF Len(g.missingPath) > 1 THEN fail("path does not exist")
  ELSE IF g.entry /= 0
  THEN IF isDir(ns[g.entry])
       THEN [err |-> Nil, nodes |-> ns,
             files |-> Append(fs, File(g.entry, flag, FALSE, 0, path))]
       ELSE LET o == openExisting(ns[g.entry], flag) IN
            [err |-> o.err,
             nodes |-> [ns EXCEPT ![g.entry].content = o.content],
             files |-> IF o.err /= Nil THEN fs
                       ELSE Append(fs, File(g.entry, flag, TRUE, o.pos, path))]
  ELSE LET a == openAbsent(flag) IN
       IF a /= "create" THEN fail(a)
       ELSE LET id == Len(ns) + 1
                name == missingName(g.missingPath)
            IN [err |-> Nil,
                nodes |-> putEntry(Append(ns, fsNode(name, FALSE)),
                                   g.parent, name, id),
                files |-> Append(fs, File(id, flag, TRUE, 0, path))]

\* Stat returns FileInfo{node}; node 0 is the nil node of the root path.
Stat(ns, path) ==
  LET g == getEntry(ns, path) IN
  IF g.err /= Nil THEN [err |-> g.err, node |-> 0]
  ELSE IF g.missingPath /= <<>> THEN [err |-> "path does not exist", node |-> 0]
  ELSE [err |-> Nil, node |-> g.entry]

\* A faulty detach: the entry is deleted but the node is not marked.
unlinkUnmarked(ns, parent, entry) ==
  deleteEntry(ns, parent, ns[entry].name)

\* A faulty detach: the node is marked but stays an entry of its parent.
unlinkMarkOnly(ns, parent, entry) ==
  [ns EXCEPT ![entry].unlinked = TRUE]

\* Detach: mark the node and delete it from its parent under its name.
unlink(ns, parent, entry) ==
  deleteEntry([ns EXCEPT ![entry].unlinked = TRUE], parent, ns[entry].name)

Remove(ns, path) ==
  LET g == getEntry(ns, path) IN
  IF g.err /= Nil THEN [err |-> g.err, nodes |-> ns]
  ELSE IF g.missingPath /= <<>> THEN [err |-> "path does not exist", nodes |-> ns]
  ELSE IF g.entry = 0 THEN [err |-> "panic", nodes |-> ns]
  ELSE IF isDir(ns[g.entry])
       THEN IF Cardinality(DOMAIN ns[g.entry].entries) = 0
            THEN [err |-> Nil, nodes |-> unlink(ns, g.parent, g.entry)]
            ELSE [err |-> "directory not empty", nodes |-> ns]
       ELSE [err |-> Nil, nodes |-> unlink(ns, g.parent, g.entry)]

\* A faulty RemoveAll: a directory is detached with its children in it.
RemoveNonEmpty(ns, path) ==
  LET g == getEntry(ns, path) IN
  IF g.err /= Nil THEN [err |-> g.err, nodes |-> ns]
  ELSE IF g.missingPath /= <<>> THEN [err |-> "path does not exist", nodes |-> ns]
  ELSE IF g.entry = 0 THEN [err |-> "panic", nodes |-> ns]
  ELSE [err |-> Nil, nodes |-> unlink(ns, g.parent, g.entry)]

\* RemoveAll repeats Remove; its loop over the children is inside the branch
\* taken when the directory has none, so that it runs over no child.
RemoveAll(ns, path) ==
  LET g == getEntry(ns, path) IN
  IF g.err /= Nil THEN [err |-> g.err, nodes |-> ns]
  ELSE IF g.missingPath /= <<>> THEN [err |-> "path does not exist", nodes |-> ns]
  ELSE IF g.entry = 0 THEN [err |-> "panic", nodes |-> ns]
  ELSE IF isDir(ns[g.entry])
       THEN IF Cardinality(DOMAIN ns[g.entry].entries) = 0
            THEN [err |-> Nil, nodes |-> unlink(ns, g.parent, g.entry)]
            ELSE [err |-> "directory not empty", nodes |-> ns]
       ELSE [err |-> Nil, nodes |-> unlink(ns, g.parent, g.entry)]

\* FS.ReadDir: the names of the entries of the node at path; the nil node of
\* the root path is dereferenced.
ReadDir(ns, path) ==
  LET g == getEntry(ns, path) IN
  IF g.err /= Nil THEN [err |-> g.err, names |-> <<>>]
  ELSE IF g.missingPath /= <<>>
       THEN [err |-> "path does not exist", names |-> <<>>]
       ELSE IF g.entry = 0 THEN [err |-> "panic", names |-> <<>>]
            ELSE [err |-> Nil, names |-> getEntryNames(ns[g.entry])]

\* A faulty Mkdir: an existing entry is silently accepted.
MkdirExisting(ns, path) ==
  LET g == getEntry(ns, path) IN
  IF g.err /= Nil THEN [err |-> g.err, nodes |-> ns]
  ELSE IF g.entry /= 0 \/ g.missingPath = <<>> THEN [err |-> Nil, nodes |-> ns]
  ELSE IF Len(g.missingPath) > 1 THEN [err |-> "path does not exist", nodes |-> ns]
  ELSE LET id == Len(ns) + 1
           name == missingName(g.missingPath)
       IN [err |-> Nil,
           nodes |-> putEntry(Append(ns, fsNode(name, TRUE)), g.parent, name, id)]

Mkdir(ns, path) ==
  LET g == getEntry(ns, path) IN
  IF g.err /= Nil THEN [err |-> g.err, nodes |-> ns]
  ELSE IF g.entry = 0 /\ g.missingPath = <<>> THEN [err |-> Nil, nodes |-> ns]
  ELSE IF g.entry /= 0 THEN [err |-> "path exists", nodes |-> ns]
  ELSE IF Len(g.missingPath) > 1 THEN [err |-> "path does not exist", nodes |-> ns]
  ELSE LET id == Len(ns) + 1
           name == missingName(g.missingPath)
       IN [err |-> Nil,
           nodes |-> putEntry(Append(ns, fsNode(name, TRUE)), g.parent, name, id)]

----------------------------------------------------------------------------
(* Temporary names.  rnd is what randomString returns.  A pattern, and the  *)
(* name made from it, is the sequence of the pieces of its text: the piece *)
(* "*", the piece "/" (the separator) and pieces of other text.            *)

\* strings.Replace(pattern, "*", rnd, -1)
RECURSIVE replaceAll(_, _)
replaceAll(pattern, rnd) ==
  IF pattern = <<>> THEN <<>>
  ELSE <<IF Head(pattern) = "*" THEN rnd ELSE Head(pattern)>>
         \o replaceAll(Tail(pattern), rnd)

createRandomPathPart(pattern, rnd) ==
  IF \E i \in 1..Len(pattern) : pattern[i] = "*"
  THEN replaceAll(pattern, rnd)
  ELSE replaceAll(Append(pattern, "*"), rnd)

\* The segments of a text: its pieces joined between separators, the empty
\* segments dropped as filepath.Clean drops them.
RECURSIVE segments(_, _)
segments(text, seg) ==
  IF text = <<>> THEN (IF seg = "" THEN <<>> ELSE <<seg>>)
  ELSE IF Head(text) = "/"
       THEN (IF seg = "" THEN <<>> ELSE <<seg>>) \o segments(Tail(text), "")
       ELSE segments(Tail(text), seg \o Head(text))

\* filepath.Join(dir, name)
joinPath(dir, name) == dir \o segments(name, "")

TempDir == <<tempDir>>

Create(ns, fs, path) ==
  OpenFile(ns, fs, path, O_RDWR \cup O_CREATE \cup O_TRUNC)

\* The directory of a temp call, given as the split text of dir; the error
\* is that of the checks before the loop.
tempTarget(ns, dirParts) ==
  LET dir == IF dirParts = <<"">> THEN TempDir ELSE getAbsolutePath(dirParts)
      g == getEntry(ns, dir)
  IN IF g.err /= Nil THEN [err |-> g.err, dir |-> dir]
     ELSE IF g.entry = 0 \/ ~isDir(ns[g.entry])
          THEN [err |-> "dir does not exist", dir |-> dir]
          ELSE [err |-> Nil, dir |-> dir]

\* The loop of CreateTemp over the random strings rnds, one per round: it
\* ends at the first round whose Create succeeds, and has not ended
\* ("running") when rnds is used up.
RECURSIVE createTempLoop(_, _, _, _, _, _)
createTempLoop(ns, fs, dir, pattern, rnds, i) ==
  IF i > Len(rnds)
  THEN [err |-> "running", nodes |-> ns, files |-> fs, path |-> <<>>]
  ELSE LET path == joinPath(dir, createRandomPathPart(pattern, rnds[i]))
           r == Create(ns, fs, path)
       IN IF r.err /= Nil
          THEN createTempLoop(r.nodes, r.files, dir, pattern, rnds, i + 1)
          ELSE [err |-> Nil, nodes |-> r.nodes, files |-> r.files,
                path |-> path]

CreateTemp(ns, fs, dirParts, pattern, rnds) ==
  LET t == tempTarget(ns, dirParts) IN
  IF t.err /= Nil
  THEN [err |-> t.err, nodes |-> ns, files |-> fs, path |-> <<>>]
  ELSE createTempLoop(ns, fs, t.dir, pattern, rnds, 1)

RECURSIVE mkdirTempLoop(_, _, _, _, _)
mkdirTempLoop(ns, dir, pattern, rnds, i) ==
  IF i > Len(rnds)
  THEN [err |-> "running", nodes |-> ns, path |-> <<>>]
  ELSE LET tDir == joinPath(dir, createRandomPathPart(pattern, rnds[i]))
           r == Mkdir(ns, tDir)
       IN IF r.err /= Nil
          THEN mkdirTempLoop(r.nodes, dir, pattern, rnds, i + 1)
          ELSE [err |-> Nil, nodes |-> r.nodes, path |-> tDir]

MkdirTemp(ns, dirParts, pattern, rnds) ==
  LET t == tempTarget(ns, dirParts) IN
  IF t.err /= Nil
  THEN [err |-> t.err, nodes |-> ns, path |-> <<>>]
  ELSE mkdirTempLoop(ns, t.dir, pattern, rnds, 1)

----------------------------------------------------------------------------
(* Content engine.  A result carries the error, the count, the bytes read, *)
(* the cursor and the content after the call.  k is the length of the      *)
(* caller's buffer; a slice bound out of range is the error "panic".       *)

Res(err, n, data, pos, content) ==
  [err |-> err, n |-> n, data |-> data, pos |-> pos, content |-> content]

Zeros(n) == [i \in 1..n |-> 0]

\* copy(dst[at:], src): dst with src laid over it from offset at.
copyAt(dst, at, src) ==
  [i \in 1..Len(dst) |->
     IF i > at /\ i <= at + Len(src) THEN src[i - at] ELSE dst[i]]

\* A faulty read: it copies one byte fewer than fits.
readShort(content, pos, k) ==
  IF pos >= k
  THEN Res("EOF", 0, <<>>, pos, content)
  ELSE IF pos > Len(content)
       THEN Res("panic", 0, <<>>, pos, content)
       ELSE LET n == Min(k - 1, Len(content) - pos) IN
            Res(Nil, n, SubSeq(content, pos + 1, pos + n), pos + n, content)

\* A faulty read: at the end of the data it rewinds the cursor.
readRewinds(content, pos, k) ==
  IF pos >= k
  THEN Res("EOF", 0, <<>>, 0, content)
  ELSE IF pos > Len(content)
       THEN Res("panic", 0, <<>>, pos, content)
       ELSE LET n == Min(k, Len(content) - pos) IN
            Res(Nil, n, SubSeq(content, pos + 1, pos + n), pos + n, content)

read(content, pos, k) ==
  IF pos >= k
  THEN Res("EOF", 0, <<>>, pos, content)
  ELSE IF pos > Len(content)
       THEN Res("panic", 0, <<>>, pos, content)
       ELSE LET n == Min(k, Len(content) - pos) IN
            Res(Nil, n, SubSeq(content, pos + 1, pos + n), pos + n, content)

crwsRead(content, pos, k) == read(content, pos, k)

\* A faulty ReadAt: it reads at the offset and leaves the cursor alone.
crwsReadAtKeepsCursor(content, pos, k, off) ==
  IF off < 0
  THEN Res("invalid argument", 0, <<>>, pos, content)
  ELSE [read(content, off, k) EXCEPT !.pos = pos]

crwsReadAt(content, pos, k, off) ==
  IF off < 0
  THEN Res("invalid argument", 0, <<>>, pos, content)
  ELSE read(content, off, k)

\* A faulty Seek: a position past the end is clamped to the end.
crwsSeekClamped(content, pos, offset, whence) ==
  LET newPos == CASE whence = SeekStart -> offset
                  [] whence = SeekCurrent -> pos + offset
                  [] whence = SeekEnd -> Len(content) + offset
                  [] OTHER -> 0
      clamped == Min(newPos, Len(content))
  IN IF newPos < 0
     THEN Res("invalid argument", 0, <<>>, pos, content)
     ELSE Res(Nil, clamped, <<>>, clamped, content)

crwsSeek(content, pos, offset, whence) ==
  LET newPos == CASE whence = SeekStart -> offset
                  [] whence = SeekCurrent -> pos + offset
                  [] whence = SeekEnd -> Len(content) + offset
                  [] OTHER -> 0
  IN IF newPos < 0
     THEN Res("invalid argument", 0, <<>>, pos, content)
     ELSE Res(Nil, newPos, <<>>, newPos, content)

\* A faulty write: past the end it appends instead of filling the gap.
writeNoGap(content, pos, p) ==
  LET at == Min(pos, Len(content))
      newContent ==
        IF at + Len(p) > Len(content)
        THEN copyAt(Zeros(at + Len(p)), 0, content)
        ELSE content
  IN Res(Nil, Len(p), <<>>, at + Len(p), copyAt(newContent, at, p))

\* A faulty write: the bytes after the written range are dropped.
writeCutsTail(content, pos, p) ==
  LET kept == copyAt(Zeros(pos), 0, SubSeq(content, 1, Min(pos, Len(content))))
  IN Res(Nil, Len(p), <<>>, pos + Len(p), kept \o p)

\* A faulty write: a write of no bytes does nothing at all.
writeSkipsEmpty(content, pos, p) ==
  LET newContent ==
        IF pos + Len(p) > Len(content)
        THEN copyAt(Zeros(pos + Len(p)), 0, content)
        ELSE content
  IN IF p = <<>>
     THEN Res(Nil, 0, <<>>, pos, content)
     ELSE Res(Nil, Len(p), <<>>, pos + Len(p), copyAt(newContent, pos, p))

write(content, pos, p) ==
  LET newContent ==
        IF pos >= Len(content)
        THEN copyAt(Zeros(pos + Len(p)), 0, content)
        ELSE IF pos + Len(p) > Len(content)
             THEN copyAt(Zeros(pos + Len(p)), 0, content)
             ELSE content
  IN Res(Nil, Len(p), <<>>, pos + Len(p), copyAt(newContent, pos, p))

crwsWrite(content, pos, p) == write(content, pos, p)

crwsWriteAt(content, pos, p, off) ==
  IF off < 0
  THEN Res("invalid argument", 0, <<>>, pos, content)
  ELSE write(content, off, p)

----------------------------------------------------------------------------
(* Handle operations: node is the handle's node, f the handle.  A call on  *)
(* the nil engine of a directory handle dereferences nil: "panic".         *)

NilDeref(node, f) == Res("panic", 0, <<>>, f.pos, node.content)
Rejected(e, node, f) == Res(e, 0, <<>>, f.pos, node.content)

\* A faulty Stat: it refuses a closed handle.
FileStatClosed(node, f) ==
  IF node.unlinked THEN "file unlinked"
  ELSE IF f.closed THEN "file closed" ELSE Nil

FileStat(node, f) ==
  IF node.unlinked THEN "file unlinked" ELSE Nil

\* A faulty Close: it succeeds on a closed handle as well.
FileCloseAgain(f) == [err |-> Nil, closed |-> TRUE]

FileClose(f) ==
  IF f.closed
  THEN [err |-> "file closed", closed |-> f.closed]
  ELSE [err |-> Nil, closed |-> TRUE]

FileRead(node, f, k) ==
  IF node.unlinked THEN Rejected("file unlinked", node, f)
  ELSE IF ~canRead(f.flag) THEN Rejected("cannot read", node, f)
  ELSE IF f.closed THEN Rejected("file closed", node, f)
  ELSE IF ~f.crws THEN NilDeref(node, f)
  ELSE crwsRead(node.content, f.pos, k)

FileReadAt(node, f, k, off) ==
  IF node.unlinked THEN Rejected("file unlinked", node, f)
  ELSE IF ~canRead(f.flag) THEN Rejected("cannot read", node, f)
  ELSE IF f.closed THEN Rejected("file closed", node, f)
  ELSE IF off < 0 THEN Rejected("invalid argument", node, f)
  ELSE IF ~f.crws THEN NilDeref(node, f)
  ELSE crwsReadAt(node.content, f.pos, k, off)

\* A faulty Seek: it does not look at the closed flag.
FileSeekAfterClose(node, f, offset, whence) ==
  IF node.unlinked THEN Rejected("file unlinked", node, f)
  ELSE IF ~f.crws THEN NilDeref(node, f)
  ELSE crwsSeek(node.content, f.pos, offset, whence)

FileSeek(node, f, offset, whence) ==
  IF node.unlinked THEN Rejected("file unlinked", node, f)
  ELSE IF f.closed THEN Rejected("file closed", node, f)
  ELSE IF ~f.crws THEN NilDeref(node, f)
  ELSE crwsSeek(node.content, f.pos, offset, whence)

\* A faulty Write: a directory handle has a content engine as well.
FileWriteAnyKind(node, f, p) ==
  IF node.unlinked THEN Rejected("file unlinked", node, f)
  ELSE IF ~canWrite(f.flag) THEN Rejected("cannot write", node, f)
  ELSE IF f.closed THEN Rejected("file closed", node, f)
  ELSE crwsWrite(node.content, f.pos, p)

FileWrite(node, f, p) ==
  IF node.unlinked THEN Rejected("file unlinked", node, f)
  ELSE IF ~canWrite(f.flag) THEN Rejected("cannot write", node, f)
  ELSE IF f.closed THEN Rejected("file closed", node, f)
  ELSE IF ~f.crws THEN NilDeref(node, f)
  ELSE crwsWrite(node.content, f.pos, p)

FileWriteAt(node, f, p, off) ==
  IF node.unlinked THEN Rejected("file unlinked", node, f)
  ELSE IF ~canWrite(f.flag) THEN Rejected("cannot write", node, f)
  ELSE IF isAppend(f.flag) THEN Rejected("append only file", node, f)
  ELSE IF f.closed THEN Rejected("file closed", node, f)
  ELSE IF off < 0 THEN Rejected("invalid argument", node, f)
  ELSE IF ~f.crws THEN NilDeref(node, f)
  ELSE crwsWriteAt(node.content, f.pos, p, off)

\* A faulty page: the index is not reset when the last page is returned.
pageNoReset(names, index, n) ==
  IF n < 0 \/ n >= Len(names)
  THEN [err |-> Nil, names |-> names, index |-> index]
  ELSE IF index > Len(names)
       THEN [err |-> "panic", names |-> <<>>, index |-> index]
       ELSE LET rest == SubSeq(names, index + 1, Len(names)) IN
            IF n < Len(rest)
            THEN [err |-> Nil, names |-> SubSeq(rest, 1, n), index |-> index + n]
            ELSE [err |-> Nil, names |-> rest, index |-> index]

\* One page of a listing: the names returned and the view's index after.
page(names, index, n) ==
  IF n < 0 \/ n >= Len(names)
  THEN [err |-> Nil, names |-> names, index |-> index]
  ELSE IF index > Len(names)
       THEN [err |-> "panic", names |-> <<>>, index |-> index]
       ELSE LET rest == SubSeq(names, index + 1, Len(names)) IN
            IF n < Len(rest)
            THEN [err |-> Nil, names |-> SubSeq(rest, 1, n), index |-> index + n]
            ELSE [err |-> Nil, names |-> rest, index |-> 0]

listing(node, f, index, n) ==
  LET fail(e) == [err |-> e, names |-> <<>>, index |-> index] IN
  IF node.unlinked THEN fail("file unlinked")
  ELSE IF f.closed THEN fail("file closed")
  ELSE IF ~isDir(node) THEN fail("not a directoru")
  ELSE page(getEntryNames(node), index, n)

FileReadDir(node, f, n) == listing(node, f, f.indexReadDir, n)
FileReaddir(node, f, n) == listing(node, f, f.indexReaddir, n)
FileReaddirnames(node, f, n) == listing(node, f, f.indexReaddirnames, n)

----------------------------------------------------------------------------
(* The state machine: one action per call.  A panic ends the process.      *)

NoCall ==
  [op |-> "none", h |-> 0, path |-> <<>>, flag |-> {}, buf |-> <<>>, k |-> 0,
   off |-> 0, whence |-> 0, cnt |-> 0, pos0 |-> 0, err |-> Nil, n |-> 0,
   data |-> <<>>, names |-> <<>>, node |-> 0, pattern |-> <<>>]

Call(op) == [NoCall EXCEPT !.op = op]

Running == last.err /= "panic"

Handles == 1..Len(files)

nodeOf(h) == nodes[files[h].node]

\* A thread: the activations of the call it runs, innermost last, and the
\* nodes whose mutex it holds.
Threads == 1..MaxThreads
Idle == [stack |-> <<>>, held |-> {}]

Init ==
  /\ nodes = New
  /\ files = <<>>
  /\ last = NoCall
  /\ threads = [t \in Threads |-> Idle]

CallOpenFile(path, flag) ==
  /\ Running
  /\ UNCHANGED threads
  /\ LET r == OpenFile(nodes, files, path, flag) IN
     /\ Len(r.nodes) <= MaxNodes
     /\ Len(r.files) <= MaxFiles
     /\ nodes' = r.nodes
     /\ files' = r.files
     /\ last' = [Call("OpenFile") EXCEPT
                   !.path = path, !.flag = flag, !.err = r.err,
                   !.h = IF r.err = Nil THEN Len(r.files) ELSE 0,
                   !.node = IF r.err = Nil THEN r.files[Len(r.files)].node ELSE 0]

CallStat(path) ==
  /\ Running
  /\ UNCHANGED threads
  /\ LET r == Stat(nodes, path) IN
     /\ last' = [Call("Stat") EXCEPT
                   !.path = path, !.err = r.err, !.node = r.node,
                   !.n = IF r.node /= 0 THEN Size(nodes[r.node]) ELSE 0]
     /\ UNCHANGED <<nodes, files>>

CallRemove(path) ==
  /\ Running
  /\ UNCHANGED threads
  /\ LET r == Remove(nodes, path) IN
     /\ nodes' = r.nodes
     /\ last' = [Call("Remove") EXCEPT !.path = path, !.err = r.err]
     /\ UNCHANGED files

CallMkdir(path) ==
  /\ Running
  /\ UNCHANGED threads
  /\ LET r == Mkdir(nodes, path) IN
     /\ Len(r.nodes) <= MaxNodes
     /\ nodes' = r.nodes
     /\ last' = [Call("Mkdir") EXCEPT !.path = path, !.err = r.err]
     /\ UNCHANGED files

CallRemoveAll(path) ==
  /\ Running
  /\ UNCHANGED threads
  /\ LET r == RemoveAll(nodes, path) IN
     /\ nodes' = r.nodes
     /\ last' = [Call("RemoveAll") EXCEPT !.path = path, !.err = r.err]
     /\ UNCHANGED files

\* parts is the text of the path split at the separator.
CallMkdirAll(parts) ==
  /\ Running
  /\ UNCHANGED threads
  /\ LET r == MkdirAll(nodes, parts) IN
     /\ Len(r.nodes) <= MaxNodes
     /\ nodes' = r.nodes
     /\ last' = [Call("MkdirAll") EXCEPT !.path = parts, !.err = r.err]
     /\ UNCHANGED files

CallFSReadDir(path) ==
  /\ Running
  /\ UNCHANGED threads
  /\ LET r == ReadDir(nodes, path) IN
     /\ last' = [Call("FS.ReadDir") EXCEPT
                   !.path = path, !.err = r.err, !.names = r.names]
     /\ UNCHANGED <<nodes, files>>

\* A temp call returns when its loop has ended; rnds are the random strings
\* of its rounds.
CallCreateTemp(dirParts, pattern, rnds) ==
  /\ Running
  /\ UNCHANGED threads
  /\ LET r == CreateTemp(nodes, files, dirParts, pattern, rnds) IN
     /\ r.err /= "running"
     /\ Len(r.nodes) <= MaxNodes
     /\ Len(r.files) <= MaxFiles
     /\ nodes' = r.nodes
     /\ files' = r.files
     /\ last' = [Call("CreateTemp") EXCEPT
                   !.path = r.path, !.err = r.err, !.pattern = pattern,
                   !.h = IF r.err = Nil THEN Len(r.files) ELSE 0,
                   !.node = IF r.err = Nil THEN r.files[Len(r.files)].node ELSE 0]

CallMkdirTemp(dirParts, pattern, rnds) ==
  /\ Running
  /\ UNCHANGED threads
  /\ LET r == MkdirTemp(nodes, dirParts, pattern, rnds) IN
     /\ r.err /= "running"
     /\ Len(r.nodes) <= MaxNodes
     /\ nodes' = r.nodes
     /\ last' = [Call("MkdirTemp") EXCEPT
                   !.path = r.path, !.err = r.err, !.pattern = pattern]
     /\ UNCHANGED files

\* A faulty effect: the cursor is kept in the node, so every handle on the
\* node of h moves with h.
ApplyShared(h, call, r) ==
  /\ UNCHANGED threads
  /\ Len(r.content) <= MaxLen
  /\ r.pos <= MaxLen
  /\ nodes' = [nodes EXCEPT ![files[h].node].content = r.content]
  /\ files' = [g \in Handles |->
                IF files[g].node = files[h].node
                THEN [files[g] EXCEPT !.pos = r.pos] ELSE files[g]]
  /\ last' = [call EXCEPT !.h = h, !.pos0 = files[h].pos, !.err = r.err,
                           !.n = r.n, !.data = r.data]

\* The effect of a content call on handle h; pos0 is the cursor before it.
Apply(h, call, r) ==
  /\ UNCHANGED threads
  /\ Len(r.content) <= MaxLen
  /\ r.pos <= MaxLen
  /\ nodes' = [nodes EXCEPT ![files[h].node].content = r.content]
  /\ files' = [files EXCEPT ![h].pos = r.pos]
  /\ last' = [call EXCEPT !.h = h, !.pos0 = files[h].pos, !.err = r.err,
                           !.n = r.n, !.data = r.data]

CallRead(h, k) ==
  /\ Running
  /\ Apply(h, [Call("Read") EXCEPT !.k = k], FileRead(nodeOf(h), files[h], k))

CallReadAt(h, k, off) ==
  /\ Running
  /\ Apply(h, [Call("ReadAt") EXCEPT !.k = k, !.off = off],
           FileReadAt(nodeOf(h), files[h], k, off))

CallSeek(h, offset, whence) ==
  /\ Running
  /\ Apply(h, [Call("Seek") EXCEPT !.off = offset, !.whence = whence],
           FileSeek(nodeOf(h), files[h], offset, whence))

CallWrite(h, p) ==
  /\ Running
  /\ Apply(h, [Call("Write") EXCEPT !.buf = p],
           FileWrite(nodeOf(h), files[h], p))

CallWriteAt(h, p, off) ==
  /\ Running
  /\ Apply(h, [Call("WriteAt") EXCEPT !.buf = p, !.off = off],
           FileWriteAt(nodeOf(h), files[h], p, off))

CallFileStat(h) ==
  /\ Running
  /\ UNCHANGED threads
  /\ LET e == FileStat(nodeOf(h), files[h]) IN
     last' = [Call("File.Stat") EXCEPT
                !.h = h, !.err = e,
                !.node = IF e = Nil THEN files[h].node ELSE 0,
                !.n = IF e = Nil THEN Size(nodeOf(h)) ELSE 0]
  /\ UNCHANGED <<nodes, files>>

CallClose(h) ==
  /\ Running
  /\ UNCHANGED threads
  /\ LET r == FileClose(files[h]) IN
     /\ files' = [files EXCEPT ![h].closed = r.closed]
     /\ last' = [Call("Close") EXCEPT !.h = h, !.err = r.err]
  /\ UNCHANGED nodes

CallReadDir(h, n) ==
  /\ Running
  /\ UNCHANGED threads
  /\ LET r == FileReadDir(nodeOf(h), files[h], n) IN
     /\ files' = [files EXCEPT ![h].indexReadDir = r.index]
     /\ last' = [Call("ReadDir") EXCEPT
                   !.h = h, !.cnt = n, !.err = r.err, !.names = r.names]
  /\ UNCHANGED nodes

CallReaddir(h, n) ==
  /\ Running
  /\ UNCHANGED threads
  /\ LET r == FileReaddir(nodeOf(h), files[h], n) IN
     /\ files' = [files EXCEPT ![h].indexReaddir = r.index]
     /\ last' = [Call("Readdir") EXCEPT
                   !.h = h, !.cnt = n, !.err = r.err, !.names = r.names]
  /\ UNCHANGED nodes

CallReaddirnames(h, n) ==
  /\ Running
  /\ UNCHANGED threads
  /\ LET r == FileReaddirnames(nodeOf(h), files[h], n) IN
     /\ files' = [files EXCEPT ![h].indexReaddirnames = r.index]
     /\ last' = [Call("Readdirnames") EXCEPT
                   !.h = h, !.cnt = n, !.err = r.err, !.names = r.names]
  /\ UNCHANGED nodes

----------------------------------------------------------------------------
(* Calls that interleave.  A thread runs Mkdir or RemoveAll one step at a  *)
(* time: each mutex taken, each map read or written, is a step.  An        *)
(* activation keeps the locals of the call: pc, the walk of getEntry (cur, *)
(* i) and its results, the mutex its deferred Unlock releases (lock), and  *)
(* the children its loop has visited.                                      *)

newFrame(op, path) ==
  [op |-> op, path |-> path, pc |-> IF path = <<>> THEN "act" ELSE "walk",
   cur |-> Root, i |-> 1, parent |-> IF path = <<>> THEN Root ELSE 0,
   entry |-> 0, missing |-> <<>>, err |-> Nil, lock |-> 0, visited |-> {}]

running(t) == threads[t].stack /= <<>>
top(t) == threads[t].stack[Len(threads[t].stack)]
lockedBy(n) == \E u \in Threads : n \in threads[u].held

\* The thread with its innermost activation replaced and its locks changed.
step(t, frame, held) ==
  [threads EXCEPT ![t] =
     [stack |-> [threads[t].stack EXCEPT ![Len(threads[t].stack)] = frame],
      held |-> held]]

\* The parent parts that getEntry walks.
walkParts(frame) == SubSeq(frame.path, 1, Len(frame.path) - 1)

\* The Mkdir calls under way, each of which will need a node of the arena.
pendingMkdirs ==
  Cardinality({u \in Threads : running(u) /\ threads[u].stack[1].op = "Mkdir"})

Begin(t, op, path) ==
  /\ Running
  /\ ~running(t)
  /\ op = "Mkdir" => Len(nodes) + pendingMkdirs < MaxNodes
  /\ threads' = [threads EXCEPT ![t].stack = <<newFrame(op, path)>>]
  /\ UNCHANGED <<nodes, files, last>>

\* getEntry: current.mutex.Lock()
WalkLock(t) ==
  /\ Running
  /\ running(t)
  /\ top(t).pc = "walk"
  /\ top(t).i <= Len(walkParts(top(t)))
  /\ ~lockedBy(top(t).cur)
  /\ threads' = step(t, [top(t) EXCEPT !.pc = "look"],
                     threads[t].held \cup {top(t).cur})
  /\ UNCHANGED <<nodes, files, last>>

\* getEntry: the lookup of a part under the lock, and the Unlock
WalkLook(t) ==
  /\ Running
  /\ running(t)
  /\ top(t).pc = "look"
  /\ LET f == top(t)
         parts == walkParts(f)
         released == threads[t].held \ {f.cur}
     IN threads' =
          IF parts[f.i] \in DOMAIN nodes[f.cur].entries
          THEN LET e == nodes[f.cur].entries[parts[f.i]] IN
               IF ~isDir(nodes[e])
               THEN step(t, [f EXCEPT !.pc = "act", !.err = "not a directory"],
                         released)
               ELSE step(t, [f EXCEPT !.pc = "walk", !.cur = e, !.i = f.i + 1],
                         released)
          ELSE step(t, [f EXCEPT !.pc = "act", !.parent = f.cur,
                                 !.missing = SubSeq(parts, f.i, Len(parts))],
                    released)
  /\ UNCHANGED <<nodes, files, last>>

\* getEntry: the lookup of the last entry, which takes no lock
WalkLast(t) ==
  /\ Running
  /\ running(t)
  /\ top(t).pc = "walk"
  /\ top(t).i > Len(walkParts(top(t)))
  /\ LET f == top(t)
         lastEntry == f.path[Len(f.path)]
     IN threads' =
          IF lastEntry \in DOMAIN nodes[f.cur].entries
          THEN step(t, [f EXCEPT !.pc = "act", !.parent = f.cur,
                                 !.entry = nodes[f.cur].entries[lastEntry]],
                    threads[t].held)
          ELSE step(t, [f EXCEPT !.pc = "act", !.parent = f.cur,
                                 !.missing = <<lastEntry>>],
                    threads[t].held)
  /\ UNCHANGED <<nodes, files, last>>

\* The checks of Mkdir and of RemoveAll on what getEntry returned.
decide(f, ns) ==
  IF f.err /= Nil THEN [f EXCEPT !.pc = "ret"]
  ELSE IF f.op = "Mkdir"
  THEN IF f.entry = 0 /\ f.missing = <<>> THEN [f EXCEPT !.pc = "ret"]
       ELSE IF f.entry /= 0
            THEN [f EXCEPT !.pc = "ret", !.err = "path exists"]
            ELSE IF Len(f.missing) > 1
                 THEN [f EXCEPT !.pc = "ret", !.err = "path does not exist"]
                 ELSE [f EXCEPT !.pc = "lock"]
  ELSE IF f.missing /= <<>>
       THEN [f EXCEPT !.pc = "ret", !.err = "path does not exist"]
       ELSE IF f.entry = 0 THEN [f EXCEPT !.pc = "ret", !.err = "panic"]
            ELSE IF isDir(ns[f.entry]) /\ DOMAIN ns[f.entry].entries /= {}
                 THEN [f EXCEPT !.pc = "ret", !.err = "directory not empty"]
                 ELSE [f EXCEPT !.pc = "lock"]

Decide(t) ==
  /\ Running
  /\ running(t)
  /\ top(t).pc = "act"
  /\ threads' = step(t, decide(top(t), nodes), threads[t].held)
  /\ UNCHANGED <<nodes, files, last>>

\* parentNode.mutex.Lock(), released by the deferred Unlock at return
LockParent(t) ==
  /\ Running
  /\ running(t)
  /\ top(t).pc = "lock"
  /\ ~lockedBy(top(t).parent)
  /\ threads' = step(t, [top(t) EXCEPT !.pc = "locked", !.lock = top(t).parent],
                     threads[t].held \cup {top(t).parent})
  /\ UNCHANGED <<nodes, files, last>>

\* Mkdir puts the new directory; RemoveAll detaches the entry.
Mutate(t) ==
  /\ Running
  /\ running(t)
  /\ top(t).pc = "locked"
  /\ LET f == top(t) IN
     IF f.op = "Mkdir"
     THEN LET name == missingName(f.missing)
              id == Len(nodes) + 1
          IN /\ id <= MaxNodes
             /\ nodes' = putEntry(Append(nodes, fsNode(name, TRUE)),
                                  f.parent, name, id)
             /\ threads' = step(t, [f EXCEPT !.pc = "ret"], threads[t].held)
     ELSE /\ nodes' = unlink(nodes, f.parent, f.entry)
          /\ threads' = step(t, [f EXCEPT !.pc = IF isDir(nodes[f.entry])
                                                 THEN "loop" ELSE "ret"],
                             threads[t].held)
  /\ UNCHANGED <<files, last>>

\* RemoveAll: for part := range entryNode.entries { RemoveAll(...) }, run
\* with the mutex of the parent held.
Loop(t) ==
  /\ Running
  /\ running(t)
  /\ top(t).pc = "loop"
  /\ LET f == top(t)
         rest == (DOMAIN nodes[f.entry].entries) \ f.visited
     IN IF rest = {}
        THEN threads' = step(t, [f EXCEPT !.pc = "ret"], threads[t].held)
        ELSE \E part \in rest :
               threads' =
                 [threads EXCEPT ![t].stack =
                    Append([threads[t].stack EXCEPT ![Len(threads[t].stack)] =
                              [f EXCEPT !.visited = f.visited \cup {part}]],
                           newFrame("RemoveAll",
                                    f.path \o <<nodes[f.entry].name, part>>))]
  /\ UNCHANGED <<nodes, files, last>>

\* The return of an activation: its deferred Unlock runs; the result of the
\* outermost one is the result of the call.
Return(t) ==
  /\ Running
  /\ running(t)
  /\ top(t).pc = "ret"
  /\ LET f == top(t)
         n == Len(threads[t].stack)
     IN /\ threads' = [threads EXCEPT
                         ![t] = [stack |-> SubSeq(threads[t].stack, 1, n - 1),
                                 held |-> threads[t].held \ {f.lock}]]
        /\ last' = IF n = 1
                   THEN [Call(f.op) EXCEPT !.path = f.path, !.err = f.err,
                                           !.n = t]
                   ELSE last
  /\ UNCHANGED <<nodes, files>>

\* The node whose entries the next step of thread t reads with its mutex
\* not held, and the node whose entries it writes; 0 for none.
readsUnlocked(t) ==
  IF ~running(t) THEN 0
  ELSE LET f == top(t) IN
       IF f.pc = "walk" /\ f.i > Len(walkParts(f)) THEN f.cur
       ELSE IF f.pc = "act" /\ f.op = "RemoveAll" /\ f.err = Nil
                /\ f.entry /= 0
            THEN f.entry
            ELSE IF f.pc = "loop" THEN f.entry ELSE 0

writesEntries(t) ==
  IF running(t) /\ top(t).pc = "locked" THEN top(t).parent ELSE 0

\* A map read by one thread at the time another writes the map: the Go
\* runtime may stop the process ("concurrent map read and map write"),
\* recorded like every abort of the process.
RaceAbort(t, u) ==
  /\ Running
  /\ t /= u
  /\ readsUnlocked(t) /= 0
  /\ readsUnlocked(t) = writesEntries(u)
  /\ last' = [Call(top(t).op) EXCEPT !.path = top(t).path, !.n = t,
                !.err = "panic"]
  /\ UNCHANGED <<nodes, files, threads>>

LockOps == {"Mkdir", "RemoveAll"}
LockPaths == {<<tempDir, "a">>, <<tempDir, "a", "a">>}

NextLocks ==
  \/ \E t \in Threads, op \in LockOps, path \in LockPaths : Begin(t, op, path)
  \/ \E t \in Threads : WalkLock(t)
  \/ \E t \in Threads : WalkLook(t)
  \/ \E t \in Threads : WalkLast(t)
  \/ \E t \in Threads : Decide(t)
  \/ \E t \in Threads : LockParent(t)
  \/ \E t \in Threads : Mutate(t)
  \/ \E t \in Threads : Loop(t)
  \/ \E t \in Threads : Return(t)
  \/ \E t, u \in Threads : RaceAbort(t, u)

SpecLocks == Init /\ [][NextLocks]_vars

----------------------------------------------------------------------------
(* Handle life cycle: open, use, close and remove, on a file path and a    *)
(* directory path, with one buffer and one offset per content call.        *)

LifePaths == {<<"a">>, <<tempDir>>}
LifeFlags == {O_RDONLY, O_WRONLY, O_RDWR \cup O_CREATE}

Next ==
  \/ \E path \in LifePaths, flag \in LifeFlags : CallOpenFile(path, flag)
  \/ \E path \in LifePaths : CallRemove(path)
  \/ \E h \in Handles : CallRead(h, 1)
  \/ \E h \in Handles : CallReadAt(h, 1, 0)
  \/ \E h \in Handles : CallSeek(h, 0, SeekStart)
  \/ \E h \in Handles : CallWrite(h, <<1>>)
  \/ \E h \in Handles : CallWriteAt(h, <<1>>, 0)
  \/ \E h \in Handles : CallFileStat(h)
  \/ \E h \in Handles : CallClose(h)
  \/ \E h \in Handles : CallReadDir(h, 0 - 1)
  \/ \E h \in Handles : CallReaddir(h, 0 - 1)
  \/ \E h \in Handles : CallReaddirnames(h, 0 - 1)

Spec == Init /\ [][Next]_vars

----------------------------------------------------------------------------
(* Open semantics: every flag combination of OpenFlags on the root path,   *)
(* on a file in the root and in a directory, and on a path through a file. *)

OpenPaths == {<<>>, <<"a">>, <<tempDir, "a">>, <<"a", "a">>}

NextOpen ==
  \/ \E path \in OpenPaths, flag \in OpenFlags : CallOpenFile(path, flag)
  \/ \E path \in OpenPaths : CallStat(path)
  \/ \E h \in Handles : CallWriteAt(h, <<1>>, 0)
  \/ \E h \in Handles : CallFileStat(h)

SpecOpen == Init /\ [][NextOpen]_vars

----------------------------------------------------------------------------
(* Content engine: every read, write and seek on handles of one file.      *)

NextContent ==
  \/ CallOpenFile(<<"a">>, O_RDWR \cup O_CREATE)
  \/ \E h \in Handles, k \in BufLens : CallRead(h, k)
  \/ \E h \in Handles, k \in BufLens, off \in Offsets : CallReadAt(h, k, off)
  \/ \E h \in Handles, off \in SeekOffsets, w \in Whences : CallSeek(h, off, w)
  \/ \E h \in Handles, p \in Bufs : CallWrite(h, p)
  \/ \E h \in Handles, p \in Bufs, off \in Offsets : CallWriteAt(h, p, off)

SpecContent == Init /\ [][NextContent]_vars

----------------------------------------------------------------------------
(* The tree: directories and files made and removed along one chain of     *)
(* paths, and listed through the store and through handles.                *)

TreePaths == {<<>>, <<"a">>, <<"a", "a">>, <<"a", "a", "a">>}

\* The texts "", "a", "/", "/a", "/a/a" and "//a", split at the separator.
RawPaths ==
  {<<"">>, <<"a">>, <<"", "">>, <<"", "a">>, <<"", "a", "a">>,
   <<"", "", "a">>}

TreeFlags == {O_RDONLY, O_RDWR \cup O_CREATE}

NextTree ==
  \/ \E path \in TreePaths : CallMkdir(path)
  \/ \E parts \in RawPaths : CallMkdirAll(parts)
  \/ \E path \in TreePaths : CallRemove(path)
  \/ \E path \in TreePaths : CallRemoveAll(path)
  \/ \E path \in TreePaths, flag \in TreeFlags : CallOpenFile(path, flag)
  \/ \E path \in TreePaths : CallStat(path)
  \/ \E path \in TreePaths : CallFSReadDir(path)
  \/ \E h \in Handles : CallReaddirnames(h, 0 - 1)

SpecTree == Init /\ [][NextTree]_vars

----------------------------------------------------------------------------
(* Listings: the three views of a handle on a directory whose children     *)
(* come and go.                                                            *)

ListDir == <<tempDir>>
ListChildren == {<<tempDir, "a">>, <<tempDir, "w">>}
PageSizes == {0 - 1, 1, 2}

NextList ==
  \/ \E path \in ListChildren : CallMkdir(path)
  \/ \E path \in ListChildren : CallRemove(path)
  \/ CallOpenFile(ListDir, O_RDONLY)
  \/ \E h \in Handles, n \in PageSizes : CallReadDir(h, n)
  \/ \E h \in Handles, n \in PageSizes : CallReaddir(h, n)
  \/ \E h \in Handles, n \in PageSizes : CallReaddirnames(h, n)

SpecList == Init /\ [][NextList]_vars

----------------------------------------------------------------------------
(* Temporary files and directories made in the temp directory, with two    *)
(* values of the random string so that names collide.                      *)

RandNames == {"a", "w"}
RandRounds == {<<x>> : x \in RandNames} \cup {<<x, y>> : x, y \in RandNames}
TempDirTexts == {<<"">>, <<"", tempDir>>, <<"", "a">>, <<"", "">>}
\* The patterns "", "*", "*a*" and "a/*".
TempPatterns == {<<>>, <<"*">>, <<"*", "a", "*">>, <<"a", "/", "*">>}

NextTemp ==
  \/ \E d \in TempDirTexts, p \in TempPatterns, rnds \in RandRounds :
       CallCreateTemp(d, p, rnds)
  \/ \E d \in TempDirTexts, p \in TempPatterns, rnds \in RandRounds :
       CallMkdirTemp(d, p, rnds)
  \/ \E h \in Handles : CallWriteAt(h, <<1>>, 0)
  \/ \E h \in Handles : CallFileStat(h)

SpecTemp == Init /\ [][NextTemp]_vars

----------------------------------------------------------------------------
(* Shared nodes: two handles on one file or on one directory, each read,   *)
(* written, listed a page at a time and closed.                            *)

ShareDir == <<tempDir>>
SharePaths == {ShareDir, <<tempDir, "a">>, <<tempDir, "w">>}
ShareFlags == {O_RDONLY, O_RDWR \cup O_CREATE}
ShareBufs == {<<1>>, <<2>>}

NextShare ==
  \/ \E path \in SharePaths, flag \in ShareFlags : CallOpenFile(path, flag)
  \/ \E h \in Handles : CallRead(h, 1)
  \/ \E h \in Handles, p \in ShareBufs : CallWrite(h, p)
  \/ \E h \in Handles : CallSeek(h, 0, SeekStart)
  \/ \E h \in Handles : CallClose(h)
  \/ \E h \in Handles : CallReadDir(h, 1)
  \/ \E h \in Handles : CallReaddir(h, 1)
  \/ \E h \in Handles : CallReaddirnames(h, 1)

SpecShare == Init /\ [][NextShare]_vars

----------------------------------------------------------------------------
(* Access: reads and writes through handles opened on one file with each   *)
(* access mode, alone and with another bit.                                *)

AccessFlags ==
  { O_RDONLY, O_WRONLY, O_RDWR, O_RDONLY \cup O_CREATE, O_RDWR \cup O_CREATE,
    O_WRONLY \cup O_APPEND, O_RDONLY \cup O_TRUNC }

NextAccess ==
  \/ \E flag \in AccessFlags : CallOpenFile(<<"a">>, flag)
  \/ \E h \in Handles : CallRead(h, 1)
  \/ \E h \in Handles : CallReadAt(h, 1, 0)
  \/ \E h \in Handles, p \in ShareBufs : CallWrite(h, p)
  \/ \E h \in Handles, p \in ShareBufs : CallWriteAt(h, p, 0)

SpecAccess == Init /\ [][NextAccess]_vars

----------------------------------------------------------------------------
(* Properties.  A step is identified by the call record it leaves in       *)
(* last'; the state before the call is the unprimed one.                   *)

ContentOps == {"Read", "ReadAt", "Write", "WriteAt", "Seek"}
ListingOps == {"ReadDir", "Readdir", "Readdirnames"}
HandleOps == ContentOps \cup ListingOps \cup {"File.Stat"}

\* The node a path names in the tree ns, 0 when it names none.
RECURSIVE childAt(_, _, _, _)
childAt(ns, current, path, i) ==
  IF i > Len(path) THEN current
  ELSE IF isDir(ns[current]) /\ path[i] \in DOMAIN ns[current].entries
       THEN childAt(ns, ns[current].entries[path[i]], path, i + 1)
       ELSE 0

nodeAt(ns, path) == childAt(ns, Root, path, 1)

hasWriteIntent(flag) == "O_WRONLY" \in flag \/ "O_RDWR" \in flag

\* C1: after Remove(path) succeeds every handle opened on that path has a
\* detached node, and a node stays detached for good; on a handle whose node
\* is detached each of Read, ReadAt, Write, WriteAt, Seek, Stat, ReadDir,
\* Readdir and Readdirnames fails with the detached-node error ("file
\* unlinked") and changes neither the tree nor any handle, while Close still
\* succeeds on it when it is open; a file created afterwards is a new node
\* with empty content, and a write through one node's handle changes no
\* other node.
C1_Step ==
  /\ (last'.op = "Remove" /\ last'.err = Nil)
       => \A h \in Handles :
            files[h].path = last'.path => nodes'[files[h].node].unlinked
  /\ \A i \in 1..Len(nodes) : nodes[i].unlinked => nodes'[i].unlinked
  /\ \A h \in Handles :
       (last'.h = h /\ nodeOf(h).unlinked) =>
         /\ last'.op \in HandleOps =>
              /\ last'.err = "file unlinked"
              /\ nodes' = nodes
              /\ files' = files
         /\ (last'.op = "Close" /\ ~files[h].closed) =>
              /\ last'.err = Nil
              /\ nodes' = nodes
  /\ (last'.op = "OpenFile" /\ Len(nodes') > Len(nodes)) =>
       /\ Len(nodes') = Len(nodes) + 1
       /\ nodes'[Len(nodes')].content = <<>>
       /\ ~nodes'[Len(nodes')].unlinked
       /\ last'.node = Len(nodes')
       /\ \A i \in 1..Len(nodes) : nodes'[i].content = nodes[i].content
  /\ \A h \in Handles :
       (last'.h = h /\ last'.op \in ContentOps) =>
         \A i \in 1..Len(nodes) :
           i /= files[h].node => nodes'[i] = nodes[i]

C1_PostRemovalHandle == [][C1_Step]_vars

\* A read through the old handle of a removed path is refused while a new,
\* empty file lives at that path and the old node keeps its bytes.
C1_Witness ==
  /\ last.op = "Read"
  /\ last.err = "file unlinked"
  /\ \E h \in Handles :
       /\ h /= last.h
       /\ files[h].path = files[last.h].path
       /\ ~nodeOf(h).unlinked
       /\ nodeOf(h).content = <<>>
       /\ nodeAt(nodes, files[h].path) = files[h].node
  /\ nodeOf(last.h).unlinked
  /\ nodeOf(last.h).content /= <<>>

\* C2: a handle is open when OpenFile returns it; Close on an open handle
\* succeeds and closes it, Close on a closed handle fails with "file closed"
\* (Closed); only Close changes the closed flag and it never returns to
\* false.
C2_Step ==
  /\ Len(files') >= Len(files)
  /\ \A h \in 1..Len(files') : h > Len(files) => ~files'[h].closed
  /\ \A h \in Handles :
       /\ files[h].closed => files'[h].closed
       /\ files'[h].closed /= files[h].closed =>
            (last'.op = "Close" /\ last'.h = h)
       /\ (last'.op = "Close" /\ last'.h = h) =>
            IF files[h].closed
            THEN last'.err = "file closed" /\ ErrKind(last'.err) = "ErrClosed"
            ELSE last'.err = Nil /\ files'[h].closed

C2_DoubleClose == [][C2_Step]_vars

C2_Witness ==
  /\ last.op = "Close"
  /\ last.err = "file closed"
  /\ files[last.h].closed

\* C3 as claimed: on a closed handle every operation, Stat included, fails
\* with Closed, whatever the flags and the node.
C3_Claimed ==
  [][\A h \in Handles :
       (files[h].closed /\ last'.h = h
          /\ last'.op \in HandleOps \cup {"Close"})
         => ErrKind(last'.err) = "ErrClosed"]_vars

\* What the flags of a handle let each operation do.
permits(f, op) ==
  CASE op \in {"Read", "ReadAt"} -> canRead(f.flag)
    [] op = "Write" -> canWrite(f.flag)
    [] op = "WriteAt" -> canWrite(f.flag) /\ ~isAppend(f.flag)
    [] OTHER -> TRUE

\* C3 as the code has it: on a closed handle Read, ReadAt, Write, WriteAt,
\* Seek, ReadDir, Readdir, Readdirnames and Close all fail and change
\* nothing; Close always fails with Closed, the others fail with Closed when
\* the node is attached and the flags permit the operation, and with
\* InvalidPath otherwise (the detached-node and flag checks come first);
\* Stat does not look at the closed flag and succeeds on an attached node.
C3_Step ==
  \A h \in Handles :
    (files[h].closed /\ last'.h = h) =>
      /\ last'.op = "Close" => ErrKind(last'.err) = "ErrClosed"
      /\ last'.op \in ContentOps \cup ListingOps =>
           /\ nodes' = nodes
           /\ files' = files
           /\ ErrKind(last'.err) =
                IF ~nodeOf(h).unlinked /\ permits(files[h], last'.op)
                THEN "ErrClosed" ELSE "ErrInvalid"
      /\ last'.op = "File.Stat" =>
           ErrKind(last'.err) = IF nodeOf(h).unlinked THEN "ErrInvalid" ELSE Nil

C3_AfterClose == [][C3_Step]_vars

\* A Seek on a closed handle of an attached file is refused with Closed.
C3_Witness ==
  /\ last.op = "Seek"
  /\ last.err = "file closed"
  /\ files[last.h].closed
  /\ ~nodeOf(last.h).unlinked

\* The offset a content call works at: the cursor before a Read or Write,
\* the given offset for ReadAt and WriteAt.
offsetOf(call) ==
  IF call.op \in {"ReadAt", "WriteAt"} THEN call.off ELSE call.pos0

\* C4: when a call writes the bytes b at offset 0 of a file (Write with the
\* cursor at 0, or WriteAt at 0) and the next call reads the same file from
\* offset 0 into a buffer of length len(b) (ReadAt at 0, or Read through a
\* handle whose cursor is 0), the read returns len(b) bytes equal to b, with
\* no error when b is not empty.
C4_Step ==
  \A h \in Handles :
    ( /\ last.op \in {"Write", "WriteAt"}
      /\ last.err = Nil
      /\ offsetOf(last) = 0
      /\ last'.op \in {"Read", "ReadAt"}
      /\ last'.h = h
      /\ files[h].node = files[last.h].node
      /\ offsetOf(last') = 0
      /\ last'.k = Len(last.buf) )
    => /\ last'.n = Len(last.buf)
       /\ last'.data = last.buf
       /\ last'.err \in {Nil, "EOF"}
       /\ last.buf /= <<>> => last'.err = Nil

C4_RoundTrip == [][C4_Step]_vars

\* Two bytes written at offset 0 have been read back through another handle.
C4_Witness ==
  /\ last.op = "Read"
  /\ last.pos0 = 0
  /\ last.k = 2
  /\ last.data = <<2, 1>>
  /\ last.err = Nil
  /\ \E h \in Handles : h /= last.h /\ files[h].node = files[last.h].node
  /\ nodeOf(last.h).content = <<2, 1>>

\* C5: a successful Write or WriteAt of a non-empty buffer p at an offset c
\* greater than the length L of the file leaves the old L bytes, then c - L
\* zero bytes, then p; the new length is c + len(p).
C5_Step ==
  \A h \in Handles :
    LET c == offsetOf(last')
        old == nodeOf(h).content
    IN ( /\ last'.op \in {"Write", "WriteAt"}
         /\ last'.h = h
         /\ last'.err = Nil
         /\ last'.buf /= <<>>
         /\ c > Len(old) )
       => /\ nodes'[files[h].node].content
               = old \o Zeros(c - Len(old)) \o last'.buf
          /\ Len(nodes'[files[h].node].content) = c + Len(last'.buf)

C5_SparseWrite == [][C5_Step]_vars

\* A Write after a Seek past the end of a one-byte file has left a zero.
C5_Witness ==
  /\ last.op = "Write"
  /\ last.err = Nil
  /\ last.pos0 = 2
  /\ last.buf = <<2>>
  /\ nodeOf(last.h).content = <<1, 0, 2>>

\* C6: no Seek changes the tree; on an open handle of an attached file a
\* Seek from the start, the cursor or the end whose resulting position is
\* negative fails with "invalid argument" (InvalidPath) and leaves the
\* cursor where it was, and one whose resulting position is not negative,
\* past the end included, succeeds, returns that position and leaves the
\* cursor there.
C6_Step ==
  \A h \in Handles :
    (last'.op = "Seek" /\ last'.h = h) =>
      /\ nodes' = nodes
      /\ ( /\ ~nodeOf(h).unlinked
           /\ ~files[h].closed
           /\ files[h].crws
           /\ last'.whence \in {SeekStart, SeekCurrent, SeekEnd} )
         => LET target ==
                  CASE last'.whence = SeekStart -> last'.off
                    [] last'.whence = SeekCurrent -> files[h].pos + last'.off
                    [] last'.whence = SeekEnd ->
                         Len(nodeOf(h).content) + last'.off
            IN IF target < 0
               THEN /\ ErrKind(last'.err) = "ErrInvalid"
                    /\ files'[h].pos = files[h].pos
               ELSE /\ last'.err = Nil
                    /\ last'.n = target
                    /\ files'[h].pos = target

C6_Seek == [][C6_Step]_vars

\* A Seek from the end has put the cursor past the end of the file.
C6_Witness ==
  /\ last.op = "Seek"
  /\ last.whence = SeekEnd
  /\ last.err = Nil
  /\ last.n > Len(nodeOf(last.h).content)
  /\ files[last.h].pos = last.n
  /\ nodeOf(last.h).content /= <<>>

\* The path of the directory a path lies in.
dirOf(path) == SubSeq(path, 1, Len(path) - 1)

\* The target of path is absent from the tree ns and its parent directory
\* is there.
absentInParent(ns, path) ==
  /\ path /= <<>>
  /\ nodeAt(ns, dirOf(path)) /= 0
  /\ isDir(ns[nodeAt(ns, dirOf(path))])
  /\ path[Len(path)] \notin DOMAIN ns[nodeAt(ns, dirOf(path))].entries

\* The path names a file of the tree ns.
isFileAt(ns, path) ==
  nodeAt(ns, path) /= 0 /\ ~isDir(ns[nodeAt(ns, path)])

\* C7: OpenFile without Create on an absent path whose parent directory
\* exists changes neither the tree nor the handles and returns no handle;
\* the error is NotExist when the flags are exactly read-only and InvalidPath
\* for any other flags.
C7_Step ==
  ( /\ last'.op = "OpenFile"
    /\ absentInParent(nodes, last'.path)
    /\ "O_CREATE" \notin last'.flag )
  => /\ nodes' = nodes
     /\ files' = files
     /\ last'.h = 0
     /\ ErrKind(last'.err) =
          IF last'.flag = {} THEN "ErrNotExist" ELSE "ErrInvalid"

C7_OpenAbsentNoCreate == [][C7_Step]_vars

\* A write-only truncating open of an absent file in an existing directory
\* has been refused.
C7_Witness ==
  /\ last.op = "OpenFile"
  /\ last.path = <<tempDir, "a">>
  /\ last.flag = O_WRONLY \cup O_TRUNC
  /\ last.err = "path does not exist and cannot create"
  /\ absentInParent(nodes, last.path)
  /\ files /= <<>>

\* C8 as claimed: a successful OpenFile with Create on an absent path adds
\* exactly one node, an empty file named by the final segment of the path,
\* as a child of the directory the rest of the path names; Stat of the path
\* then succeeds on that node, a non-directory of size 0, and the returned
\* handle refers to it.
C8_Step ==
  ( /\ last'.op = "OpenFile"
    /\ last'.err = Nil
    /\ "O_CREATE" \in last'.flag
    /\ nodeAt(nodes, last'.path) = 0 )
  => LET path == last'.path
         id == Len(nodes) + 1
     IN /\ path /= <<>>
        /\ nodeAt(nodes, dirOf(path)) /= 0
        /\ nodes' = putEntry(Append(nodes, fsNode(path[Len(path)], FALSE)),
                             nodeAt(nodes, dirOf(path)), path[Len(path)], id)
        /\ Stat(nodes', path) = [err |-> Nil, node |-> id]
        /\ ~isDir(nodes'[id])
        /\ Size(nodes'[id]) = 0
        /\ Len(files') = Len(files) + 1
        /\ last'.h = Len(files')
        /\ files'[last'.h].node = id

C8_CreateAddsNamedFile == [][C8_Step]_vars

\* C9: OpenFile on an existing file with write intent and Truncate, and not
\* both Create and CreateExclusive, succeeds and leaves the file empty, so
\* that Stat through every handle on it reports size 0; OpenFile on an
\* existing file without Truncate or without write intent leaves the tree,
\* and so the content, as it was.
C9_Step ==
  ( /\ last'.op = "OpenFile"
    /\ isFileAt(nodes, last'.path) )
  => LET e == nodeAt(nodes, last'.path)
         flag == last'.flag
     IN /\ ( /\ hasWriteIntent(flag)
             /\ "O_TRUNC" \in flag
             /\ ~("O_CREATE" \in flag /\ "O_EXCL" \in flag) )
           => /\ last'.err = Nil
              /\ nodes'[e].content = <<>>
              /\ \A h \in 1..Len(files') :
                   files'[h].node = e =>
                     /\ FileStat(nodes'[e], files'[h]) = Nil
                     /\ Size(nodes'[e]) = 0
        /\ ("O_TRUNC" \notin flag \/ ~hasWriteIntent(flag))
           => nodes' = nodes

C9_Truncate == [][C9_Step]_vars

\* A truncating open has emptied a file that another handle had written.
C9_Witness ==
  /\ last.op = "OpenFile"
  /\ last.err = Nil
  /\ "O_TRUNC" \in last.flag
  /\ nodes[last.node].content = <<>>
  /\ \E h \in Handles :
       h /= last.h /\ files[h].node = last.node /\ files[h].pos > 0

\* C10: OpenFile with write intent, Create and CreateExclusive on a path
\* that names a file fails with "path exists" (AlreadyExists), returns no
\* handle and changes neither the tree nor the handles, with Truncate as
\* without it.
C10_Step ==
  ( /\ last'.op = "OpenFile"
    /\ isFileAt(nodes, last'.path)
    /\ hasWriteIntent(last'.flag)
    /\ "O_CREATE" \in last'.flag
    /\ "O_EXCL" \in last'.flag )
  => /\ ErrKind(last'.err) = "ErrExist"
     /\ last'.h = 0
     /\ nodes' = nodes
     /\ files' = files

C10_ExclusiveCreate == [][C10_Step]_vars

\* An exclusive, truncating create has been refused on a file that still
\* has its bytes.
C10_Witness ==
  /\ last.op = "OpenFile"
  /\ last.err = "path exists"
  /\ "O_TRUNC" \in last.flag
  /\ isFileAt(nodes, last.path)
  /\ nodes[nodeAt(nodes, last.path)].content /= <<>>

\* Some directory above the final segment of path is absent from the tree
\* ns: the walk from the root comes, before the final segment, to a name
\* that the directory reached so far does not have.
missingAbove(ns, path) ==
  \E i \in 1..(Len(path) - 1) :
    LET d == nodeAt(ns, SubSeq(path, 1, i - 1)) IN
    /\ d /= 0
    /\ isDir(ns[d])
    /\ path[i] \notin DOMAIN ns[d].entries

hasChildren(node) == isDir(node) /\ DOMAIN node.entries /= {}

\* C11: Mkdir on a path that names a file or a directory other than the
\* root fails with "path exists" (AlreadyExists) and leaves the tree as it
\* was; Mkdir on the root path succeeds and leaves the tree as it was.
C11_Step ==
  (last'.op = "Mkdir") =>
    /\ (last'.path /= <<>> /\ nodeAt(nodes, last'.path) /= 0) =>
         /\ ErrKind(last'.err) = "ErrExist"
         /\ nodes' = nodes
    /\ last'.path = <<>> =>
         /\ last'.err = Nil
         /\ nodes' = nodes

C11_MkdirExisting == [][C11_Step]_vars

\* Mkdir has been refused on a path that names a file.
C11_Witness ==
  /\ last.op = "Mkdir"
  /\ last.err = "path exists"
  /\ isFileAt(nodes, last.path)

\* C12 as claimed: Mkdir, and OpenFile with Create, on a path with an absent
\* directory above its final segment, one level or several, fail with
\* NotExist and create no node.
C12_Step ==
  ( /\ \/ last'.op = "Mkdir"
       \/ last'.op = "OpenFile" /\ "O_CREATE" \in last'.flag
    /\ missingAbove(nodes, last'.path) )
  => /\ ErrKind(last'.err) = "ErrNotExist"
     /\ nodes' = nodes

C12_ParentMustExist == [][C12_Step]_vars

\* C13: for an entry of the tree, that is a path other than the root path,
\* Remove on a file or an empty directory takes the entry out of its parent,
\* marks the node detached and changes nothing else; Remove on a directory
\* with a child fails with "directory not empty" (InvalidPath) and changes
\* nothing; Remove on an absent path fails with NotExist and changes
\* nothing.
C13_Step ==
  (last'.op = "Remove" /\ last'.path /= <<>>) =>
    LET path == last'.path
        e == nodeAt(nodes, path)
    IN /\ (e /= 0 /\ ~hasChildren(nodes[e])) =>
            /\ last'.err = Nil
            /\ nodes'[e].unlinked
            /\ nodeAt(nodes', path) = 0
            /\ nodes' = deleteEntry([nodes EXCEPT ![e].unlinked = TRUE],
                                    nodeAt(nodes, dirOf(path)),
                                    path[Len(path)])
       /\ (e /= 0 /\ hasChildren(nodes[e])) =>
            /\ ErrKind(last'.err) = "ErrInvalid"
            /\ nodes' = nodes
            /\ \A i \in 1..Len(nodes) : nodes'[i].unlinked = nodes[i].unlinked
       /\ (absentInParent(nodes, path) \/ missingAbove(nodes, path)) =>
            /\ ErrKind(last'.err) = "ErrNotExist"
            /\ nodes' = nodes

C15_Step ==
  ( /\ last'.op = "RemoveAll"
    /\ last'.path /= <<>>
    /\ nodeAt(nodes, last'.path) /= 0
    /\ hasChildren(nodes[nodeAt(nodes, last'.path)]) )
  => /\ last'.err = Nil
     /\ nodes'[nodeAt(nodes, last'.path)].unlinked
     /\ nodeAt(nodes', last'.path) = 0

C15_RemoveAllNonEmpty == [][C15_Step]_vars

\* C16 as claimed: after a successful MkdirAll of an absolute path a second
\* MkdirAll of the same path succeeds and leaves the tree as it is, and every
\* prefix of the path resolves to a directory.
C16_Step ==
  ( /\ last'.op = "MkdirAll"
    /\ last'.err = Nil
    /\ Len(last'.path) > 1
    /\ last'.path[1] = "" )
  => /\ MkdirAll(nodes', last'.path) = [err |-> Nil, nodes |-> nodes']
     /\ \A i \in 2..Len(last'.path) :
          LET prefix == getAbsolutePath(SubSeq(last'.path, 1, i)) IN
          /\ nodeAt(nodes', prefix) /= 0
          /\ isDir(nodes'[nodeAt(nodes', prefix)])
          /\ getEntry(nodes', prefix).err = Nil
          /\ getEntry(nodes', prefix).missingPath = <<>>

C16_MkdirAllIdempotent == [][C16_Step]_vars

Views == {"ReadDir", "Readdir", "Readdirnames"}

viewIndex(v, f) ==
  CASE v = "ReadDir" -> f.indexReadDir
    [] v = "Readdir" -> f.indexReaddir
    [] v = "Readdirnames" -> f.indexReaddirnames

viewCall(v, node, f, n) ==
  CASE v = "ReadDir" -> FileReadDir(node, f, n)
    [] v = "Readdir" -> FileReaddir(node, f, n)
    [] v = "Readdirnames" -> FileReaddirnames(node, f, n)

viewAt(v, f, i) ==
  CASE v = "ReadDir" -> [f EXCEPT !.indexReadDir = i]
    [] v = "Readdir" -> [f EXCEPT !.indexReaddir = i]
    [] v = "Readdirnames" -> [f EXCEPT !.indexReaddirnames = i]

\* The pages of view v of handle f on node, called with k until the view's
\* index is 0 again, joined; done tells that the index did come back.
RECURSIVE drain(_, _, _, _, _)
drain(v, node, f, k, fuel) ==
  LET r == viewCall(v, node, f, k) IN
  IF r.err /= Nil \/ fuel = 0 THEN [done |-> FALSE, names |-> r.names]
  ELSE IF r.index = 0 THEN [done |-> TRUE, names |-> r.names]
  ELSE LET rest == drain(v, node, viewAt(v, f, r.index), k, fuel - 1) IN
       [done |-> rest.done, names |-> r.names \o rest.names]

\* The same over a bare list of names.
RECURSIVE drainPages(_, _, _, _)
drainPages(names, index, k, fuel) ==
  LET r == page(names, index, k) IN
  IF r.err /= Nil \/ fuel = 0 THEN [done |-> FALSE, names |-> r.names]
  ELSE IF r.index = 0 THEN [done |-> TRUE, names |-> r.names]
  ELSE LET rest == drainPages(names, r.index, k, fuel - 1) IN
       [done |-> rest.done, names |-> r.names \o rest.names]

\* Every sorted list of names a directory can have.
NameLists ==
  {SelectSeq(NameOrder, LAMBDA x : x \in S) :
     S \in SUBSET {NameOrder[i] : i \in 1..Len(NameOrder)}}

\* names holds every child of node once, in ascending order.
listsChildren(names, node) ==
  /\ {names[i] : i \in 1..Len(names)} = DOMAIN node.entries
  /\ Len(names) = Cardinality(DOMAIN node.entries)
  /\ \A i, j \in 1..Len(names) :
       i < j => \E a, b \in 1..Len(NameOrder) :
                  a < b /\ NameOrder[a] = names[i] /\ NameOrder[b] = names[j]

\* C17: on an open handle of an attached directory, for each view whose
\* index is 0 and each k > 0, the pages that calls with k return until the
\* index is 0 again, joined, are the list that one call with n < 0 returns:
\* every child once, in ascending order of name.  The same holds of the
\* paging of every sorted list of up to four names.
C17_Pagination ==
  /\ \A h \in Handles, v \in Views, k \in 1..(Len(NameOrder) + 1) :
       ( /\ isDir(nodeOf(h))
         /\ ~nodeOf(h).unlinked
         /\ ~files[h].closed
         /\ viewIndex(v, files[h]) = 0 )
       => LET whole == viewCall(v, nodeOf(h), files[h], 0 - 1)
              paged == drain(v, nodeOf(h), files[h], k, Len(NameOrder) + 1)
          IN /\ whole.err = Nil
             /\ whole.index = 0
             /\ listsChildren(whole.names, nodeOf(h))
             /\ paged.done
             /\ paged.names = whole.names
  /\ \A names \in NameLists, k \in 1..(Len(NameOrder) + 1) :
       drainPages(names, 0, k, Len(NameOrder) + 1)
         = [done |-> TRUE, names |-> page(names, 0, 0 - 1).names]

\* The second of two pages of one name each has been returned and the
\* view's index is 0 again.
C17_Witness ==
  /\ last.op = "Readdirnames"
  /\ last.cnt = 1
  /\ last.err = Nil
  /\ last.names = <<"w">>
  /\ files[last.h].indexReaddirnames = 0
  /\ getEntryNames(nodeOf(last.h)) = <<"a", "w">>

\* C18 as claimed: a CreateTemp or MkdirTemp that returns a name returns
\* one that the directory did not have, and makes one new node for it,
\* leaving every node there was as it was but for the new entry of the
\* directory; so that consecutive calls yield distinct names and nodes.
C18_Step ==
  ( /\ last'.op \in {"CreateTemp", "MkdirTemp"}
    /\ last'.err = Nil )
  => LET path == last'.path
         dir == nodeAt(nodes, dirOf(path))
         id == Len(nodes) + 1
     IN /\ nodeAt(nodes, path) = 0
        /\ Len(nodes') = id
        /\ nodeAt(nodes', path) = id
        /\ \A i \in 1..Len(nodes) : i /= dir => nodes'[i] = nodes[i]
        /\ \A h \in Handles : files'[h] = files[h]
        /\ last'.op = "CreateTemp" => files'[last'.h].node = id

C18_TempNamesUnique == [][C18_Step]_vars

\* The node whose mutex the next step of thread t takes, 0 for none.
waitsFor(t) ==
  IF ~running(t) THEN 0
  ELSE IF top(t).pc = "walk" /\ top(t).i <= Len(walkParts(top(t)))
       THEN top(t).cur
       ELSE IF top(t).pc = "lock" THEN top(t).parent ELSE 0

\* Some threads wait for mutexes that only threads among them hold.
Deadlocked ==
  \E S \in (SUBSET Threads) \ {{}} :
    \A t \in S : waitsFor(t) /= 0 /\ \E u \in S : waitsFor(t) \in threads[u].held

\* C20 as claimed: at no time does a thread hold the mutexes of two nodes,
\* and no threads wait for ever on mutexes held among themselves.
C20_LocksNeverNested ==
  /\ \A t \in Threads : Cardinality(threads[t].held) <= 1
  /\ ~Deadlocked

\* C19 as claimed: no call aborts the process; each returns a result or an
\* error value.
C19_NoAbort == ErrKind(last.err) /= "panic"

\* C21: on a closed handle whose node is still attached, Stat succeeds,
\* reports that node and its size and changes nothing, while each of Read,
\* ReadAt, Seek, Write and WriteAt on that handle returns an error.
C21_Step ==
  \A h \in Handles :
    (files[h].closed /\ ~nodeOf(h).unlinked /\ last'.h = h) =>
      /\ last'.op = "File.Stat" =>
           /\ last'.err = Nil
           /\ last'.node = files[h].node
           /\ last'.n = Size(nodeOf(h))
           /\ nodes' = nodes
           /\ files' = files
      /\ last'.op \in ContentOps =>
           ErrKind(last'.err) \in {"ErrClosed", "ErrInvalid"}

C21_StatAfterClose == [][C21_Step]_vars

\* Stat has reported the one byte of a file through a closed handle.
C21_Witness ==
  /\ last.op = "File.Stat"
  /\ last.err = Nil
  /\ files[last.h].closed
  /\ ~nodeOf(last.h).unlinked
  /\ last.n = 1

\* The path runs through a file: some proper prefix of it names a file.
throughFile(ns, path) ==
  \E i \in 1..(Len(path) - 1) :
    LET n == nodeAt(ns, SubSeq(path, 1, i)) IN n /= 0 /\ ~isDir(ns[n])

\* The texts of RawPaths and the texts "/a/a/a" and "//a/a".
ThroughTexts == RawPaths \cup {<<"", "a", "a", "a">>, <<"", "", "a", "a">>}

\* What C22 asks of the five calls that resolve their path with getEntry.
C22_Resolved ==
  \A path \in TreePaths :
    throughFile(nodes, path) =>
      /\ \A flag \in OpenFlags :
           LET r == OpenFile(nodes, files, path, flag) IN
           /\ ErrKind(r.err) = "ErrInvalid"
           /\ r.nodes = nodes
           /\ r.files = files
      /\ LET r == Mkdir(nodes, path) IN
           ErrKind(r.err) = "ErrInvalid" /\ r.nodes = nodes
      /\ ErrKind(Stat(nodes, path).err) = "ErrInvalid"
      /\ LET r == Remove(nodes, path) IN
           ErrKind(r.err) = "ErrInvalid" /\ r.nodes = nodes
      /\ ErrKind(ReadDir(nodes, path).err) = "ErrInvalid"

\* What C22 asks of MkdirAll, on the texts in texts.
C22_MkdirAllOn(texts) ==
  \A parts \in texts :
    throughFile(nodes, getAbsolutePath(parts)) =>
      LET r == MkdirAll(nodes, parts) IN
      ErrKind(r.err) = "ErrInvalid" /\ r.nodes = nodes

\* C22 as claimed: whenever a path runs through an existing file, each of
\* OpenFile, Mkdir, MkdirAll, Stat, Remove and ReadDir on that path fails
\* with InvalidPath and leaves the tree as it was.
C22_ThroughFile == C22_Resolved /\ C22_MkdirAllOn(ThroughTexts)

\* C23: a call through one handle leaves every other handle as it was
\* (cursor, listing indices, closed flag); a successful Read or ReadAt
\* returns the bytes the node holds at its offset, and when the call before
\* it was a successful write through another handle on the same node, the
\* bytes read from the written range are the bytes written.
C23_Step ==
  /\ \A h \in Handles : last'.h /= h => files'[h] = files[h]
  /\ \A h \in Handles :
       (last'.op \in {"Read", "ReadAt"} /\ last'.h = h /\ last'.err = Nil) =>
         LET o == offsetOf(last') IN
         /\ last'.data = SubSeq(nodeOf(h).content, o + 1, o + last'.n)
         /\ ( /\ last.op \in {"Write", "WriteAt"}
              /\ last.err = Nil
              /\ last.h /= h
              /\ files[last.h].node = files[h].node )
            => \A i \in 1..last'.n :
                 LET j == o + i - offsetOf(last) IN
                 j \in 1..Len(last.buf) => last'.data[i] = last.buf[j]

C23_HandlesIndependent == [][C23_Step]_vars

\* A byte written through one handle has been read through another, whose
\* cursor now differs from the writer's.
C23_Witness ==
  /\ last.op = "Read"
  /\ last.err = Nil
  /\ last.data = <<2>>
  /\ \E g \in Handles :
       /\ g /= last.h
       /\ files[g].node = files[last.h].node
       /\ files[g].pos = 2
       /\ files[last.h].pos = 1

\* The handle is open on an attached file.
openOnFile(h) == ~nodeOf(h).unlinked /\ ~files[h].closed /\ files[h].crws

\* C24 as claimed: Read into a buffer of length k through an open readable
\* handle with cursor c on content of length L returns no bytes, the
\* end-of-data signal and an unmoved cursor when c >= L, and otherwise
\* returns without error the min(L - c, k) bytes from c on and advances the
\* cursor by that count.
C24_Step ==
  \A h \in Handles :
    ( /\ last'.op = "Read"
      /\ last'.h = h
      /\ openOnFile(h)
      /\ canRead(files[h].flag) )
    => LET c == files[h].pos
           content == nodeOf(h).content
           n == Min(Len(content) - c, last'.k)
       IN IF c >= Len(content)
          THEN /\ last'.err = "EOF"
               /\ last'.n = 0
               /\ files'[h].pos = c
          ELSE /\ last'.err = Nil
               /\ last'.n = n
               /\ last'.data = SubSeq(content, c + 1, c + n)
               /\ files'[h].pos = c + n

C24_Read == [][C24_Step]_vars

\* C25: through an open readable handle on a file, ReadAt at an offset that
\* is not negative returns the bytes, the count and the error that Seek to
\* that offset from the start followed by Read with the same buffer returns,
\* and leaves the cursor where they leave it, the offset plus the count;
\* ReadAt at a negative offset fails with "invalid argument" (InvalidPath),
\* reads nothing and leaves the cursor where it was.
C25_Step ==
  \A h \in Handles :
    ( /\ last'.op = "ReadAt"
      /\ last'.h = h
      /\ openOnFile(h)
      /\ canRead(files[h].flag) )
    => IF last'.off >= 0
       THEN LET s == FileSeek(nodeOf(h), files[h], last'.off, SeekStart)
                r == FileRead(nodeOf(h), [files[h] EXCEPT !.pos = s.pos],
                              last'.k)
            IN /\ s.err = Nil
               /\ last'.err = r.err
               /\ last'.n = r.n
               /\ last'.data = r.data
               /\ files'[h].pos = r.pos
               /\ ErrKind(last'.err) /= "panic" =>
                    files'[h].pos = last'.off + last'.n
       ELSE /\ ErrKind(last'.err) = "ErrInvalid"
            /\ last'.n = 0
            /\ files'[h].pos = files[h].pos
            /\ nodes' = nodes

C25_ReadAtIsSeekRead == [][C25_Step]_vars

\* ReadAt has read one byte at offset 1 and moved the cursor from 0 to 2.
C25_Witness ==
  /\ last.op = "ReadAt"
  /\ last.err = Nil
  /\ last.off = 1
  /\ last.n = 1
  /\ last.pos0 = 0
  /\ files[last.h].pos = 2

Max(a, b) == IF a > b THEN a ELSE b

\* C26: Write of a non-empty buffer p through an open writable handle with
\* cursor c on content of length L >= c returns len(p) and no error, moves
\* the cursor to c + len(p), and leaves content of length max(L, c + len(p))
\* that holds p at c and the old bytes everywhere else.
C26_Step ==
  \A h \in Handles :
    LET c == files[h].pos
        old == nodeOf(h).content
        new == nodes'[files[h].node].content
        p == last'.buf
    IN ( /\ last'.op = "Write"
         /\ last'.h = h
         /\ openOnFile(h)
         /\ canWrite(files[h].flag)
         /\ p /= <<>>
         /\ c <= Len(old) )
       => /\ last'.err = Nil
          /\ last'.n = Len(p)
          /\ files'[h].pos = c + Len(p)
          /\ Len(new) = Max(Len(old), c + Len(p))
          /\ \A i \in 1..Len(new) :
               new[i] = IF i > c /\ i <= c + Len(p) THEN p[i - c] ELSE old[i]

C26_Write == [][C26_Step]_vars

\* A Write at cursor 0 has replaced the first of two bytes and kept the
\* second.
C26_Witness ==
  /\ last.op = "Write"
  /\ last.err = Nil
  /\ last.pos0 = 0
  /\ last.buf = <<2>>
  /\ nodeOf(last.h).content = <<2, 1>>

\* C27 as claimed: a successful WriteAt leaves the content that Write leaves
\* when its cursor is at the offset, and leaves the cursor of the handle
\* where it was before the call.
C27_Step ==
  \A h \in Handles :
    ( /\ last'.op = "WriteAt"
      /\ last'.h = h
      /\ last'.err = Nil )
    => /\ nodes'[files[h].node].content
            = FileWrite(nodeOf(h), [files[h] EXCEPT !.pos = last'.off],
                        last'.buf).content
       /\ files'[h].pos = files[h].pos

C27_WriteAtKeepsCursor == [][C27_Step]_vars

\* C28 as claimed: a listing call with count n on an open handle of an
\* attached directory with m children, for a view whose index is i <= m,
\* returns the children from position i on and sets the index to 0 when
\* n < 0 or n >= m - i, and otherwise returns the n children from position
\* i on and sets the index to i + n; the indices of the other two views
\* stay as they were.
C28_Step ==
  \A h \in Handles, v \in Views :
    LET names == getEntryNames(nodeOf(h))
        m == Len(names)
        i == viewIndex(v, files[h])
        n == last'.cnt
    IN ( /\ last'.op = v
         /\ last'.h = h
         /\ isDir(nodeOf(h))
         /\ ~nodeOf(h).unlinked
         /\ ~files[h].closed
         /\ i <= m )
       => /\ last'.err = Nil
          /\ IF n < 0 \/ n >= m - i
             THEN /\ last'.names = SubSeq(names, i + 1, m)
                  /\ viewIndex(v, files'[h]) = 0
             ELSE /\ last'.names = SubSeq(names, i + 1, i + n)
                  /\ viewIndex(v, files'[h]) = i + n
          /\ \A w \in Views \ {v} :
               viewIndex(w, files'[h]) = viewIndex(w, files[h])

C28_Page == [][C28_Step]_vars

\* C29 as claimed: on an open handle of an attached node, each of Read,
\* ReadAt, Write, WriteAt and Seek on a directory, and each of ReadDir,
\* Readdir and Readdirnames on a file, returns an InvalidPath error and
\* changes neither the tree nor any handle.
C29_Step ==
  \A h \in Handles :
    ( /\ last'.h = h
      /\ ~nodeOf(h).unlinked
      /\ ~files[h].closed
      /\ \/ last'.op \in ContentOps /\ isDir(nodeOf(h))
         \/ last'.op \in ListingOps /\ ~isDir(nodeOf(h)) )
    => /\ ErrKind(last'.err) = "ErrInvalid"
       /\ nodes' = nodes
       /\ files' = files

C29_WrongKind == [][C29_Step]_vars

\* C30: on an open handle of an attached file, Read and ReadAt are let
\* through exactly when the flag value is ReadOnly itself or has the
\* ReadWrite bit, Write exactly when it has the WriteOnly or the ReadWrite
\* bit, and WriteAt when it has one of these and not the Append bit; a call
\* not let through returns an InvalidPath error and 0 bytes and changes
\* neither the content nor any cursor.  So ReadOnly with another bit lets
\* nothing through, ReadOnly alone no write and WriteOnly no read.
C30_Step ==
  \A h \in Handles :
    LET flag == files[h].flag
        reads == flag = {} \/ "O_RDWR" \in flag
        writes == "O_WRONLY" \in flag \/ "O_RDWR" \in flag
        through ==
          CASE last'.op \in {"Read", "ReadAt"} -> reads
            [] last'.op = "Write" -> writes
            [] last'.op = "WriteAt" -> writes /\ "O_APPEND" \notin flag
    IN ( /\ last'.h = h
         /\ last'.op \in {"Read", "ReadAt", "Write", "WriteAt"}
         /\ openOnFile(h)
         /\ last'.off >= 0 )
       => IF through
          THEN last'.err \in {Nil, "EOF"}
          ELSE /\ ErrKind(last'.err) = "ErrInvalid"
               /\ last'.n = 0
               /\ nodes' = nodes
               /\ files' = files

C30_ExactReadOnly == [][C30_Step]_vars

\* A Read through a handle opened with ReadOnly|Create on a file that holds
\* a byte has been refused.
C30_Witness ==
  /\ last.op = "Read"
  /\ last.err = "cannot read"
  /\ files[last.h].flag = O_RDONLY \cup O_CREATE
  /\ openOnFile(last.h)
  /\ nodeOf(last.h).content /= <<>>

\* The nodes whose children mapping or detached flag the next step of
\* thread t reads or writes.
touches(t) ==
  IF ~running(t) THEN {}
  ELSE LET f == top(t) IN
       CASE f.pc = "look" -> {f.cur}
         [] f.pc = "walk" /\ f.i > Len(walkParts(f)) -> {f.cur}
         [] f.pc = "act" /\ f.op = "RemoveAll" /\ f.err = Nil
              /\ f.missing = <<>> /\ f.entry /= 0 -> {f.entry}
         [] f.pc = "locked" ->
              IF f.op = "Mkdir" THEN {f.parent} ELSE {f.parent, f.entry}
         [] f.pc = "loop" -> {f.entry}
         [] OTHER -> {}

\* C31 as claimed: a thread about to read or write the children mapping or
\* the detached flag of a node holds the mutex of that node.
C31_FieldsUnderLock ==
  \A t \in Threads : touches(t) \subseteq threads[t].held

\* The call returned an error to its caller.
returnedError(call) == call.err /= Nil /\ ErrKind(call.err) /= "panic"

\* C32 as claimed: a Read, ReadAt, Write or WriteAt that returns an error,
\* the end-of-data signal included, leaves the content of the node and the
\* cursor of the handle as they were before the call.
C32_Claimed ==
  [][\A h \in Handles :
       ( /\ last'.op \in {"Read", "ReadAt", "Write", "WriteAt"}
         /\ last'.h = h
         /\ returnedError(last') )
       => nodes' = nodes /\ files'[h].pos = files[h].pos]_vars

\* C32 as the code has it: a Read, ReadAt, Write or WriteAt that returns an
\* error leaves the tree and every other handle as they were and returns no
\* bytes; it leaves the cursor of its handle as it was too, except that a
\* ReadAt which returns the end-of-data signal leaves the cursor at its
\* offset.
C32_Step ==
  \A h \in Handles :
    ( /\ last'.op \in {"Read", "ReadAt", "Write", "WriteAt"}
      /\ last'.h = h
      /\ returnedError(last') )
    => /\ nodes' = nodes
       /\ last'.n = 0
       /\ \A g \in Handles : g /= h => files'[g] = files[g]
       /\ files'[h].pos = IF last'.op = "ReadAt" /\ last'.err = "EOF"
                          THEN last'.off ELSE files[h].pos

C32_FailingCall == [][C32_Step]_vars

\* A ReadAt at the end of a one-byte file has returned the end-of-data
\* signal and moved the cursor from 0 to its offset.
C32_Witness ==
  /\ last.op = "ReadAt"
  /\ last.err = "EOF"
  /\ last.pos0 = 0
  /\ last.off = 1
  /\ files[last.h].pos = 1
  /\ Len(nodeOf(last.h).content) = 1

\* The pattern with its first "*" replaced by rnd and every later one kept.
RECURSIVE replaceFirst(_, _)
replaceFirst(pattern, rnd) ==
  IF pattern = <<>> THEN <<>>
  ELSE IF Head(pattern) = "*" THEN <<rnd>> \o Tail(pattern)
       ELSE <<Head(pattern)>> \o replaceFirst(Tail(pattern), rnd)

\* path ends with the segments of the name.
endsWith(path, name) ==
  LET segs == segments(name, "") IN
  /\ Len(path) >= Len(segs)
  /\ SubSeq(path, Len(path) - Len(segs) + 1, Len(path)) = segs

\* C33 as claimed: the name a successful CreateTemp or MkdirTemp returns is
\* its pattern with the first "*" replaced by a random string and every
\* later "*" left in place, or the pattern followed by a random string when
\* it has no "*".
C33_Step ==
  ( /\ last'.op \in {"CreateTemp", "MkdirTemp"}
    /\ last'.err = Nil )
  => \E rnd \in RandNames :
       endsWith(last'.path,
                IF \E i \in 1..Len(last'.pattern) : last'.pattern[i] = "*"
                THEN replaceFirst(last'.pattern, rnd)
                ELSE Append(last'.pattern, rnd))

C33_FirstStarOnly == [][C33_Step]_vars

RECURSIVE descendants(_, _)
descendants(ns, S) ==
  LET T == S \cup UNION {{ns[i].entries[k] : k \in DOMAIN ns[i].entries} : i \in S}
  IN IF T = S THEN S ELSE descendants(ns, T)

\* No call is under way.
Quiescent == Running /\ \A t \in Threads : ~running(t)

\* C35 as claimed: when no call is under way, every node that was put into
\* the tree can be reached from the root or is marked as unlinked, whatever
\* the interleaving of the calls was.
C35_NoLostNode ==
  Quiescent =>
    \A i \in 1..Len(nodes) :
      i \in descendants(nodes, {Root}) \/ nodes[i].unlinked

\* C36 as claimed: a Mkdir that puts its directory and returns no error
\* found the name absent from the parent at the time it put it, so that of
\* the Mkdir calls that run together on one absent path at most one
\* succeeds.
C36_Step ==
  \A t \in Threads :
    ( /\ running(t)
      /\ top(t).op = "Mkdir"
      /\ top(t).pc = "locked"
      /\ threads'[t].stack /= <<>>
      /\ threads'[t].stack[1].pc = "ret"
      /\ threads'[t].stack[1].err = Nil )
    => missingName(top(t).missing) \notin DOMAIN nodes[top(t).parent].entries

C36_OneMkdirSucceeds == [][C36_Step]_vars

\* C37 as claimed: at every listing call on an open handle of an attached
\* directory, the index of each view is at most the number of children the
\* directory has at that time, the call returns a page and does not abort,
\* and every name of the page is the name of a child of the directory.
C37_Step ==
  \A h \in Handles :
    LET names == getEntryNames(nodeOf(h)) IN
    ( /\ last'.op \in Views
      /\ last'.h = h
      /\ isDir(nodeOf(h))
      /\ ~nodeOf(h).unlinked
      /\ ~files[h].closed )
    => /\ \A v \in Views : viewIndex(v, files[h]) <= Len(names)
       /\ last'.err = Nil
       /\ \A k \in 1..Len(last'.names) :
            last'.names[k] \in DOMAIN nodeOf(h).entries

C37_IndexInRange == [][C37_Step]_vars

\* C38 as claimed: whenever the target directory exists and is a directory,
\* a CreateTemp and a MkdirTemp with any pattern, given a run of generated
\* names one of which is not in use, have returned by the end of the run:
\* with the new name, or with the error of a creation that failed for
\* another reason than a name in use.
C38_TempCallsReturn ==
  \A d \in TempDirTexts, p \in TempPatterns, rnds \in RandRounds :
    LET t == tempTarget(nodes, d) IN
    ( /\ t.err = Nil
      /\ \E i \in 1..Len(rnds) :
           nodeAt(nodes, joinPath(t.dir, createRandomPathPart(p, rnds[i]))) = 0 )
    => /\ CreateTemp(nodes, files, d, p, rnds).err /= "running"
       /\ MkdirTemp(nodes, d, p, rnds).err /= "running"

\* C39 as claimed: a Write or a WriteAt of no bytes leaves the content of
\* every node, and so its length, as it was, wherever the cursor or the
\* offset lies.
C39_Step ==
  ( /\ last'.op \in {"Write", "WriteAt"}
    /\ last'.buf = <<>> )
  => \A i \in 1..Len(nodes) : nodes'[i].content = nodes[i].content

C39_EmptyWriteKeepsContent == [][C39_Step]_vars

\* C39: a Write or a WriteAt of no bytes that returns an error leaves all
\* content as it was; one that succeeds leaves the content of every other
\* node as it was, and leaves the content of the handle's node as it was
\* when the cursor (for WriteAt: the offset) is at most its length, and
\* otherwise lengthens it with zero bytes up to the cursor or offset.
C39_GapStep ==
  \A h \in Handles :
    ( /\ last'.op \in {"Write", "WriteAt"}
      /\ last'.h = h
      /\ last'.buf = <<>> )
    => LET id == files[h].node
           content == nodes[id].content
           at == IF last'.op = "WriteAt" THEN last'.off ELSE files[h].pos
       IN /\ \A i \in 1..Len(nodes) : i /= id => nodes'[i] = nodes[i]
          /\ nodes'[id].content =
               IF last'.err = Nil /\ at > Len(content)
               THEN content \o Zeros(at - Len(content))
               ELSE content

C39_EmptyWriteFillsGap == [][C39_GapStep]_vars

\* After a Seek past the end of the data, a Write of no bytes has lengthened
\* the content with zero bytes up to the cursor.
C39_Witness ==
  /\ last.op = "Write"
  /\ last.buf = <<>>
  /\ last.err = Nil
  /\ last.pos0 = 2
  /\ nodes[files[last.h].node].content = <<1, 0>>

====
